---- MODULE Spec2Model ----
(***************************************************************************)
(* Resilience primitives of the fastertools/actions repository:            *)
(*   - downloadWithRetry  (src/src/setup-ftl-js/src/platform.ts)           *)
(*   - waitForHealthCheck (src/src/ftl-server-up/src/shared/process.ts)    *)
(*   - waitForDeploymentCompletion (src/packages/ftl-eng-deploy/src/main.ts) *)
(*   - killProcessGracefully (src/src/ftl-server-up/src/shared/process.ts)  *)
(*     and its callers in the server-start action                          *)
(*     (src/packages/ftl-server-up/src/main.ts, src/unnamed/part_018)      *)
(*   - obtainOAuthToken (src/packages/setup-ftl/src/shared/oauth.ts)       *)
(* Every action below is one run-to-completion segment of the async        *)
(* function it models: the code between two awaits, executed atomically by *)
(* the single-threaded event loop.  Timers and the outcomes of fetch and   *)
(* of the filesystem calls are chosen by the environment.                  *)
(***************************************************************************)
EXTENDS Integers, Sequences, FiniteSets, TLC

VARIABLES
  \* ---- downloadWithRetry(url, outputPath, options) ----
  dlMaxRetries,   \* options.maxRetries
  dlBackoffMs,    \* options.backoffMs
  dlPc,           \* await the call is suspended at: call, fetch, body, mkdir, write, sleep, done
  dlAttempt,      \* loop variable `attempt`
  dlLastError,    \* local `lastError`
  dlRequests,     \* number of fetch() calls issued so far
  dlInFlight,     \* number of requests issued and not yet settled
  dlAbortTimer,   \* TRUE while the per-attempt abort timer (timeoutId) is pending
  dlDelays,       \* the backoff delays handed to setTimeout, in order
  dlData,         \* bytes of the response body read in the current attempt
  dlFsLog,        \* filesystem calls that have settled, in order
  dlErrLog,       \* what made each failed attempt fail, in order
  fsDir,          \* does path.dirname(outputPath) exist
  fsFile,         \* the file at outputPath
  fsDir0,         \* fsDir when the call was made
  fsFile0,        \* fsFile when the call was made
  dlResult,       \* pending, ok (returned) or error (threw)
  dlError,        \* message of the error thrown, "" while none
  dlSettled,      \* number of times the returned promise was settled
  \* ---- waitForHealthCheck(url, options) ----
  hcTimeoutSeconds,   \* options.timeoutSeconds
  hcIntervalMs,       \* options.intervalMs
  hcExpectedStatus,   \* options.expectedStatus, 0 when not supplied
  hcRequestTimeoutMs, \* options.requestTimeoutMs, 0 when not supplied
  hcPc,               \* call, fetch, delay, done
  hcAttempt,          \* loop variable `attempt`
  hcProbes,           \* number of fetch() calls issued so far
  hcReq,              \* none, pending (a response or rejection may come) or silent (the peer never answers)
  hcTimers,           \* attempts whose requestTimeout timer is pending
  hcWaits,            \* the delays handed to delay(), in order
  hcLog,              \* outcome of every finished probe, in order
  hcResult,           \* pending, ok (returned) or error (threw)
  hcError,            \* message of the error thrown, "" while none
  hcSettled,          \* number of times the returned promise was settled
  \* ---- waitForDeploymentCompletion(deploymentId, token, timeoutSeconds) ----
  dpTimeoutSeconds,   \* parameter timeoutSeconds
  dpPc,               \* call, fetch, json, wait, done
  dpNow,              \* Date.now() - startTime, in ms
  dpReq,              \* none, pending or silent (the peer never answers)
  dpChecks,           \* number of status requests issued so far
  dpWaits,            \* the poll delays handed to setTimeout, in order
  dpLog,              \* outcome of every finished status check, in order
  dpResult,           \* pending, ok (returned) or error (threw)
  dpError,            \* message of the error thrown, "" while none
  dpSettled,          \* number of times the returned promise was settled
  dpSetFailed,        \* argument of core.setFailed in run, "" while not called
  \* ---- the managed process object handed to killProcessGracefully ----
  psKind,             \* child (a ChildProcess from spawn) or mock (the object built from a PID file)
  psPid,              \* process.pid, 0 when undefined
  psKilled,           \* process.killed
  psAlive,            \* the operating-system process is running
  psEmitted,          \* the last event the process object emitted, "none" while none
  psKills,            \* every process.kill(signal) call, in order, with its result
  kpCalls,            \* every call of killProcessGracefully, in order
  \* ---- run() of the server-start action ----
  runVariant,         \* spawn (main.ts), script (background script and PID file) or none
  runPc,              \* spawn, startup, warmup, health, killing, done
  runSkipHealth,      \* options.skipHealthCheck
  runHealthMethod,    \* options.healthMethod, "" when the input is not given
  runHealthBody,      \* options.healthBody, "" when the input is not given
  runHandlers,        \* the cleanup handlers are registered on the host process
  runExports,         \* FTL_SERVER_URL and FTL_SERVER_PID are exported
  runProbing,         \* the health check was started
  runProbe,           \* method and body of the requests the health check issues
  runOutputs,         \* the outputs server-url, pid and status are set
  runHealthError,     \* message of the failed health check, "" while none
  runFailed,          \* argument of core.setFailed, "" while not called
  runSetFailed,       \* how many times core.setFailed was called
  hostExited,         \* the host process has emitted 'exit'
  hostSignals,        \* number of SIGINT/SIGTERM signals the host has received
  \* ---- obtainOAuthToken(config) ----
  oaClientId,         \* config.clientId
  oaClientSecret,     \* config.clientSecret
  oaPc,               \* call, fetch, json, done
  oaReq,              \* none, pending or silent (the peer never answers)
  oaEvents,           \* the core.setSecret calls and the token request, in order
  oaStatus,           \* response.status of the token response, 0 while none
  oaRaw,              \* message of the exception fetch or json() rejected with, "" while none
  oaToken,            \* the OAuthToken returned, OaNoToken while none
  oaBodyToken,        \* tokenResponse.access_token, as a JavaScript value
  oaAccessToken,      \* token.accessToken of the returned token, as a JavaScript value
  oaResult,           \* pending, ok (returned) or error (threw)
  oaError,            \* message of the error thrown, "" while none
  oaSettled           \* number of times the returned promise was settled

dlVars == <<dlMaxRetries, dlBackoffMs, dlPc, dlAttempt, dlLastError, dlRequests,
            dlInFlight, dlAbortTimer, dlDelays, dlData, dlFsLog, dlErrLog, fsDir, fsFile,
            fsDir0, fsFile0, dlResult, dlError, dlSettled>>
hcVars == <<hcTimeoutSeconds, hcIntervalMs, hcExpectedStatus, hcRequestTimeoutMs,
            hcPc, hcAttempt, hcProbes, hcReq, hcTimers, hcWaits, hcLog,
            hcResult, hcError, hcSettled>>
dpVars == <<dpTimeoutSeconds, dpPc, dpNow, dpReq, dpChecks, dpWaits, dpLog,
            dpResult, dpError, dpSettled, dpSetFailed>>
procVars == <<psKind, psPid, psKilled, psAlive, psEmitted, psKills>>
runVars == <<runVariant, runPc, runSkipHealth, runHealthMethod, runHealthBody,
            runHandlers, runExports, runProbing, runProbe,
             runOutputs, runHealthError, runFailed, runSetFailed>>
hostVars == <<hostExited, hostSignals>>
psVars == <<procVars, kpCalls, runVars, hostVars>>
oaVars == <<oaClientId, oaClientSecret, oaPc, oaReq, oaEvents, oaStatus, oaRaw,
            oaToken, oaBodyToken, oaAccessToken,
                 oaResult, oaError, oaSettled>>
\* The token cache.
VARIABLES
  FTL_AUTH_TOKEN,     \* process.env.FTL_AUTH_TOKEN, "" when unset
  FTL_TOKEN_TYPE,     \* process.env.FTL_TOKEN_TYPE, "" when unset
  FTL_TOKEN_EXPIRES,  \* process.env.FTL_TOKEN_EXPIRES, "" when unset
  tcNow,              \* Date.now(), in milliseconds
  tcAdvances,         \* how many times the clock has advanced
  tcStores,           \* how many cacheOAuthToken calls were made
  tcStored,           \* the token last given to cacheOAuthToken, and when
  tcRead,             \* what the getCachedOAuthToken call just made returned
  tcExpiredSeen       \* a read since the last store returned null for expiry

tcVars == <<FTL_AUTH_TOKEN, FTL_TOKEN_TYPE, FTL_TOKEN_EXPIRES, tcNow, tcAdvances,
            tcStores, tcStored, tcRead, tcExpiredSeen>>

\* The deploy action.
VARIABLES
  drProject,          \* the project input, '' when not given
  drWait,             \* the wait-for-completion input
  drPc,               \* where run stands
  drToken,            \* the token getAuthToken returned
  drExchanges,        \* how many obtainOAuthToken calls were made
  drRequests,         \* the Authorization header of each deployment request sent
  drReq,              \* the deployment request in flight
  drStatus,           \* response.status of the deployment response, 0 while none
  drDeployment,       \* the parsed deployment response
  drOutputs,          \* the core.setOutput calls, in order
  drFailed,           \* the core.setFailed calls of run's catch block, in order
  drEnv0              \* the three cache variables as the run found them

drVars == <<drProject, drWait, drPc, drToken, drExchanges, drRequests, drReq, drStatus,
            drDeployment, drOutputs, drFailed, drEnv0>>

vars == <<dlVars, hcVars, dpVars, psVars, oaVars, tcVars, drVars>>

\* What a primitive leaves alone: the state of the other primitives.
notDl == <<hcVars, dpVars, psVars, oaVars, tcVars, drVars>>
notHc == <<dlVars, dpVars, psVars, oaVars, tcVars, drVars>>
notDp == <<dlVars, hcVars, psVars, oaVars, tcVars, drVars>>
notPs == <<dlVars, hcVars, dpVars, oaVars, tcVars, drVars>>
notOa == <<dlVars, hcVars, dpVars, psVars, tcVars, drVars>>
notTc == <<dlVars, hcVars, dpVars, psVars, oaVars, drVars>>
\* The deploy action uses the token cache, obtainOAuthToken and the deployment poll.
notDr == <<dlVars, hcVars, psVars>>

(***************************************************************************)
(* Bounds of the model.                                                    *)
(***************************************************************************)
MaxRetries == 3          \* maxRetries ranges over 0..MaxRetries
MaxTimeoutSeconds == 2   \* timeoutSeconds ranges over 0..MaxTimeoutSeconds
MaxDeployTimeoutSeconds == 21 \* deployment timeoutSeconds ranges over 0..MaxDeployTimeoutSeconds
MaxKillCalls == 3        \* direct calls of killProcessGracefully on one process
MaxHostSignals == 2      \* SIGINT/SIGTERM signals delivered to the host process
MaxStores == 2           \* calls of cacheOAuthToken
MaxAdvances == 3         \* advances of the clock

(***************************************************************************)
(* Values shared by both primitives.                                       *)
(***************************************************************************)
\* An Error object, and the null of `let lastError: Error | null = null`.
Err(msg) == [isNull |-> FALSE, message |-> msg]
NullError == [isNull |-> TRUE, message |-> ""]

\* Response.ok: the status is in the range 200-299.
ResponseOk(status) == status >= 200 /\ status <= 299

StatusText(status) ==
  CASE status = 200 -> "OK"
    [] status = 201 -> "Created"
    [] status = 401 -> "Unauthorized"
    [] status = 404 -> "Not Found"
    [] status = 500 -> "Internal Server Error"
    [] status = 503 -> "Service Unavailable"
    [] OTHER -> ""

\* s contains sub as a substring.
Contains(s, sub) ==
  \E i \in 1..(Len(s) - Len(sub) + 1) : SubSeq(s, i, i + Len(sub) - 1) = sub

Pow2(n) == 2 ^ n

RECURSIVE SumSeq(_)
SumSeq(s) == IF s = <<>> THEN 0 ELSE s[1] + SumSeq(Tail(s))

(***************************************************************************)
(* downloadWithRetry                                                       *)
(***************************************************************************)
DlBackoffChoices == {100, 1000, 5000}
DlStatuses == {200, 404, 503}
DlBodies == {<<1, 2>>, <<7>>}
\* Messages of the errors fetch(), arrayBuffer(), mkdir() and writeFile() reject with
\* (the runtime's errors carry a non-empty message).
DlFetchErrors == {"Network error", "Persistent network error"}
DlAbortError == "This operation was aborted"
DlBodyError == "terminated"
DlMkdirError == "EACCES: permission denied, mkdir"
DlWriteError == "ENOSPC: no space left on device, write"

\* What the environment did to a failed attempt: a rejection with a message, or a
\* response with a non-success status.
Rejected(msg) == [kind |-> "error", status |-> 0, message |-> msg]
HttpFailure(status) == [kind |-> "http", status |-> status, message |-> ""]

\* A settled filesystem call: mkdir or write, whether it resolved, the attempt that
\* made it, and whether it changed the directory or the file.
FsCall(op, ok, attempt, touched) ==
  [op |-> op, ok |-> ok, attempt |-> attempt, touched |-> touched]

NoFile == [exists |-> FALSE, bytes |-> <<>>]
File(bytes) == [exists |-> TRUE, bytes |-> bytes]

\* Fault variant of BufferFrom: the ArrayBuffer is stringified first, so the bytes
\* of "[object ArrayBuffer]" are written instead of the body.
BufferFrom_stringified(data) == <<91, 111, 98, 106>>

\* Buffer.from(arrayBuffer): a view over the same bytes.
BufferFrom(data) == data

\* Fault variant of DlLoopCondition: off by one.
DlLoopCondition_inclusive(attempt, maxRetries) == attempt <= maxRetries

\* `attempt < maxRetries`, the loop condition.
DlLoopCondition(attempt, maxRetries) == attempt < maxRetries

\* Fault variant of DlIsLastAttempt: off by one, so the last failure is followed by a wait.
DlIsLastAttempt_offByOne(attempt, maxRetries) == attempt = maxRetries

\* `attempt === maxRetries - 1`, the test that skips the wait after the last attempt.
DlIsLastAttempt(attempt, maxRetries) == attempt = maxRetries - 1

\* `backoffMs * Math.pow(2, attempt)`.
DlBackoffDelay(backoffMs, attempt) == backoffMs * Pow2(attempt)

\* `HTTP ${response.status}: ${response.statusText}`.
DlHttpErrorMessage(status) ==
  "HTTP " \o ToString(status) \o ": " \o StatusText(status)

\* `lastError?.message || 'Unknown error'`.
DlCause(lastError) ==
  IF lastError.isNull \/ lastError.message = "" THEN "Unknown error"
  ELSE lastError.message

\* `Download failed after ${maxRetries} attempts: ${...}`.
DlFailureMessage(maxRetries, lastError) ==
  "Download failed after " \o ToString(maxRetries) \o " attempts: " \o DlCause(lastError)

\* Fault variant of DlCaught: the first error is kept instead of the latest.
DlCaught_keepFirst(lastError, msg) == IF lastError.isNull THEN Err(msg) ELSE lastError

\* `lastError = error instanceof Error ? error : new Error(String(error))`.
DlCaught(lastError, msg) == Err(msg)

\* The throw after the loop.
DlThrow(lastError) ==
  /\ dlPc' = "done"
  /\ dlResult' = "error"
  /\ dlError' = DlFailureMessage(dlMaxRetries, lastError)
  /\ dlSettled' = dlSettled + 1

\* The loop condition for `attempt`, then either the body up to `await fetch`
\* or the throw after the loop.
DlEnterLoop(attempt, lastError) ==
  IF DlLoopCondition(attempt, dlMaxRetries)
  THEN /\ dlPc' = "fetch"
       /\ dlAttempt' = attempt
       /\ dlRequests' = dlRequests + 1
       /\ dlInFlight' = dlInFlight + 1
       /\ dlAbortTimer' = TRUE
       /\ UNCHANGED <<dlResult, dlError, dlSettled>>
  ELSE /\ DlThrow(lastError)
       /\ dlAttempt' = attempt
       /\ UNCHANGED <<dlRequests, dlInFlight, dlAbortTimer>>

\* The outer catch block: remember the error, then break out of the loop after the
\* last attempt, or start the backoff timer.
DlCatch(msg) ==
  /\ dlLastError' = DlCaught(dlLastError, msg)
  /\ IF DlIsLastAttempt(dlAttempt, dlMaxRetries)
     THEN /\ DlThrow(DlCaught(dlLastError, msg))
          /\ UNCHANGED dlDelays
     ELSE /\ dlPc' = "sleep"
          /\ dlDelays' = Append(dlDelays, DlBackoffDelay(dlBackoffMs, dlAttempt))
          /\ UNCHANGED <<dlResult, dlError, dlSettled>>

\* The call: defaults applied, lastError = null, first pass of the loop.
DlStart ==
  /\ dlPc = "call"
  /\ DlEnterLoop(0, dlLastError)
  /\ UNCHANGED <<dlErrLog, notDl, dlMaxRetries, dlBackoffMs, dlLastError, dlDelays, dlData, dlFsLog,
                 fsDir, fsFile, fsDir0, fsFile0>>

\* fetch rejects (network error): inner catch clears the timer and rethrows.
DlFetchRejects ==
  /\ dlPc = "fetch"
  /\ \E msg \in DlFetchErrors :
       /\ DlCatch(msg)
       /\ dlErrLog' = Append(dlErrLog, Rejected(msg))
  /\ dlInFlight' = dlInFlight - 1
  /\ dlAbortTimer' = FALSE
  /\ UNCHANGED <<notDl, dlMaxRetries, dlBackoffMs, dlAttempt, dlRequests, dlData, dlFsLog,
                 fsDir, fsFile, fsDir0, fsFile0>>

\* The abort timer fires while the request is in flight: the request is aborted
\* and fetch rejects with an AbortError.
DlAbortTimerFires ==
  /\ dlPc = "fetch"
  /\ dlAbortTimer
  /\ DlCatch(DlAbortError)
  /\ dlErrLog' = Append(dlErrLog, Rejected(DlAbortError))
  /\ dlInFlight' = dlInFlight - 1
  /\ dlAbortTimer' = FALSE
  /\ UNCHANGED <<notDl, dlMaxRetries, dlBackoffMs, dlAttempt, dlRequests, dlData, dlFsLog,
                 fsDir, fsFile, fsDir0, fsFile0>>

\* fetch resolves with a response: the timer is cleared; a non-success status is
\* thrown as an error, otherwise the body is read.
DlFetchResponds ==
  /\ dlPc = "fetch"
  /\ dlAbortTimer' = FALSE
  /\ \E status \in DlStatuses :
       IF ~ResponseOk(status)
       THEN /\ DlCatch(DlHttpErrorMessage(status))
            /\ dlErrLog' = Append(dlErrLog, HttpFailure(status))
            /\ dlInFlight' = dlInFlight - 1
       ELSE /\ dlPc' = "body"
            /\ UNCHANGED <<dlLastError, dlDelays, dlResult, dlError, dlSettled,
                           dlInFlight, dlErrLog>>
  /\ UNCHANGED <<notDl, dlMaxRetries, dlBackoffMs, dlAttempt, dlRequests, dlData, dlFsLog,
                 fsDir, fsFile, fsDir0, fsFile0>>

\* response.arrayBuffer() resolves: fs.mkdir(dir, {recursive: true}) is called.
DlBodyArrives ==
  /\ dlPc = "body"
  /\ \E data \in DlBodies : dlData' = data
  /\ dlInFlight' = dlInFlight - 1
  /\ dlPc' = "mkdir"
  /\ UNCHANGED <<dlErrLog, notDl, dlMaxRetries, dlBackoffMs, dlAttempt, dlLastError, dlRequests,
                 dlAbortTimer, dlDelays, dlFsLog, fsDir, fsFile, fsDir0, fsFile0,
                 dlResult, dlError, dlSettled>>

\* response.arrayBuffer() rejects.
DlBodyFails ==
  /\ dlPc = "body"
  /\ DlCatch(DlBodyError)
  /\ dlErrLog' = Append(dlErrLog, Rejected(DlBodyError))
  /\ dlInFlight' = dlInFlight - 1
  /\ UNCHANGED <<notDl, dlMaxRetries, dlBackoffMs, dlAttempt, dlRequests, dlAbortTimer,
                 dlData, dlFsLog, fsDir, fsFile, fsDir0, fsFile0>>

\* fs.mkdir resolves: the directory exists; fs.writeFile is called.
DlMkdirDone ==
  /\ dlPc = "mkdir"
  /\ fsDir' = TRUE
  /\ dlFsLog' = Append(dlFsLog, FsCall("mkdir", TRUE, dlAttempt, ~fsDir))
  /\ dlPc' = "write"
  /\ UNCHANGED <<dlErrLog, notDl, dlMaxRetries, dlBackoffMs, dlAttempt, dlLastError, dlRequests,
                 dlInFlight, dlAbortTimer, dlDelays, dlData, fsFile, fsDir0, fsFile0,
                 dlResult, dlError, dlSettled>>

\* fs.mkdir rejects.
DlMkdirFails ==
  /\ dlPc = "mkdir"
  /\ dlFsLog' = Append(dlFsLog, FsCall("mkdir", FALSE, dlAttempt, FALSE))
  /\ DlCatch(DlMkdirError)
  /\ dlErrLog' = Append(dlErrLog, Rejected(DlMkdirError))
  /\ UNCHANGED <<notDl, dlMaxRetries, dlBackoffMs, dlAttempt, dlRequests, dlInFlight,
                 dlAbortTimer, dlData, fsDir, fsFile, fsDir0, fsFile0>>

\* fs.writeFile resolves: the file holds the buffer; the function returns.
DlWriteDone ==
  /\ dlPc = "write"
  /\ fsFile' = File(BufferFrom(dlData))
  /\ dlFsLog' = Append(dlFsLog, FsCall("write", TRUE, dlAttempt, TRUE))
  /\ dlPc' = "done"
  /\ dlResult' = "ok"
  /\ dlSettled' = dlSettled + 1
  /\ UNCHANGED <<dlErrLog, notDl, dlMaxRetries, dlBackoffMs, dlAttempt, dlLastError, dlRequests,
                 dlInFlight, dlAbortTimer, dlDelays, dlData, fsDir, fsDir0, fsFile0,
                 dlError>>

\* fs.writeFile rejects: either the file could not be opened (it is unchanged) or
\* the write stopped after the file was truncated and n bytes were written.
DlWriteFails ==
  /\ dlPc = "write"
  /\ \/ /\ UNCHANGED fsFile
        /\ dlFsLog' = Append(dlFsLog, FsCall("write", FALSE, dlAttempt, FALSE))
     \/ /\ \E n \in 0..(Len(dlData) - 1) :
             fsFile' = File(SubSeq(BufferFrom(dlData), 1, n))
        /\ dlFsLog' = Append(dlFsLog, FsCall("write", FALSE, dlAttempt, TRUE))
  /\ DlCatch(DlWriteError)
  /\ dlErrLog' = Append(dlErrLog, Rejected(DlWriteError))
  /\ UNCHANGED <<notDl, dlMaxRetries, dlBackoffMs, dlAttempt, dlRequests, dlInFlight,
                 dlAbortTimer, dlData, fsDir, fsDir0, fsFile0>>

\* The backoff timer fires: attempt++ and the next pass of the loop.
DlBackoffElapsed ==
  /\ dlPc = "sleep"
  /\ DlEnterLoop(dlAttempt + 1, dlLastError)
  /\ UNCHANGED <<dlErrLog, notDl, dlMaxRetries, dlBackoffMs, dlLastError, dlDelays, dlData, dlFsLog,
                 fsDir, fsFile, fsDir0, fsFile0>>

NextDl ==
  \/ DlStart
  \/ DlFetchRejects
  \/ DlAbortTimerFires
  \/ DlFetchResponds
  \/ DlBodyArrives
  \/ DlBodyFails
  \/ DlMkdirDone
  \/ DlMkdirFails
  \/ DlWriteDone
  \/ DlWriteFails
  \/ DlBackoffElapsed

\* A call of downloadWithRetry with options from the bounded sets, on a
\* filesystem where the destination may or may not exist yet.
InitDl ==
  /\ dlMaxRetries \in 0..MaxRetries
  /\ dlBackoffMs \in DlBackoffChoices
  /\ dlPc = "call"
  /\ dlAttempt = 0
  /\ dlLastError = NullError
  /\ dlRequests = 0
  /\ dlInFlight = 0
  /\ dlAbortTimer = FALSE
  /\ dlDelays = <<>>
  /\ dlData = <<>>
  /\ dlFsLog = <<>>
  /\ dlErrLog = <<>>
  /\ fsDir \in BOOLEAN
  /\ fsFile \in (IF fsDir THEN {NoFile, File(<<9, 9>>)} ELSE {NoFile})
  /\ fsDir0 = fsDir
  /\ fsFile0 = fsFile
  /\ dlResult = "pending"
  /\ dlError = ""
  /\ dlSettled = 0

(***************************************************************************)
(* waitForHealthCheck                                                      *)
(***************************************************************************)
HcIntervalChoices == {1000, 1500, 2000}
HcExpectedChoices == {0, 200, 201}
HcRequestTimeoutChoices == {0, 100}
HcStatuses == {200, 201, 503}

\* How a probe ended: fetch resolved with a response, fetch rejected with a network
\* error, or the request was aborted by its requestTimeout timer.
HcResponse(attempt, status) == [attempt |-> attempt, kind |-> "response", status |-> status]
HcRejected(attempt) == [attempt |-> attempt, kind |-> "rejected", status |-> 0]
HcAborted(attempt) == [attempt |-> attempt, kind |-> "aborted", status |-> 0]

\* `timeoutSeconds * 1000`.
HcTimeoutMs == hcTimeoutSeconds * 1000

\* Fault variant of HcMaxAttempts: the quotient is rounded down.
HcMaxAttempts_floor == (HcTimeoutMs \div hcIntervalMs) + 1

\* `Math.ceil(timeoutMs / intervalMs) + 1`, for timeoutMs >= 0 and intervalMs > 0.
HcMaxAttempts == ((HcTimeoutMs + hcIntervalMs - 1) \div hcIntervalMs) + 1

\* `requestTimeoutMs && requestTimeoutMs > 0`: is a per-attempt timer started.
HcHasRequestTimeout == hcRequestTimeoutMs # 0 /\ hcRequestTimeoutMs > 0

\* Fault variant of HcPasses: the expected status is not compared.
HcPasses_anyOk(status) == ResponseOk(status)

\* `response.ok` and not `expectedStatus && response.status !== expectedStatus`.
HcPasses(status) ==
  ResponseOk(status) /\ ~(hcExpectedStatus # 0 /\ status # hcExpectedStatus)

\* Fault variant of HcDelayMs: the interval doubles with every attempt.
HcDelayMs_doubling == hcIntervalMs * Pow2(hcAttempt)

\* The argument of `delay(intervalMs)`.
HcDelayMs == hcIntervalMs

\* `Server health check failed after ${timeoutSeconds}s timeout`.
HcTimeoutMessage ==
  "Server health check failed after " \o ToString(hcTimeoutSeconds) \o "s timeout"

\* The throw after the loop.
HcThrow ==
  /\ hcPc' = "done"
  /\ hcResult' = "error"
  /\ hcError' = HcTimeoutMessage
  /\ hcSettled' = hcSettled + 1

\* The loop condition for `attempt`, then either the body up to `await fetch`
\* (a new AbortController, its timer when requestTimeoutMs is set, the request)
\* or the throw after the loop.
HcEnterLoop(attempt) ==
  /\ hcAttempt' = attempt
  /\ IF attempt < HcMaxAttempts
     THEN /\ hcPc' = "fetch"
          /\ hcProbes' = hcProbes + 1
          /\ hcReq' = "pending"
          /\ hcTimers' = IF HcHasRequestTimeout THEN hcTimers \cup {attempt} ELSE hcTimers
          /\ UNCHANGED <<hcResult, hcError, hcSettled>>
     ELSE /\ HcThrow
          /\ UNCHANGED <<hcProbes, hcReq, hcTimers>>

\* The end of the loop body after a probe that did not pass: wait before the next
\* attempt, or, after the last attempt, leave the loop and throw.
HcAfterAttempt ==
  IF hcAttempt < HcMaxAttempts - 1
  THEN /\ hcPc' = "delay"
       /\ hcWaits' = Append(hcWaits, HcDelayMs)
       /\ UNCHANGED <<hcAttempt, hcResult, hcError, hcSettled>>
  ELSE /\ HcThrow
       /\ hcAttempt' = hcAttempt + 1
       /\ UNCHANGED hcWaits

\* Fault variant of HcCatch: the error of the probe is rethrown.
HcCatch_rethrow ==
  /\ HcThrow
  /\ UNCHANGED <<hcAttempt, hcWaits>>

\* The empty catch block: the error is swallowed and the loop body goes on.
HcCatch == HcAfterAttempt

\* Fault variant of HcAbortHits: one controller shared by all attempts, so that
\* the timer of any attempt aborts whatever request is in flight.
HcAbortHits_shared(i) == hcPc = "fetch"

\* `new AbortController()` inside the loop body: the controller aborted by the
\* timer of attempt i carries the signal of the request of attempt i only, so the
\* abort rejects a fetch only while that request is the one awaited.
HcAbortHits(i) == hcPc = "fetch" /\ hcAttempt = i

\* The call: defaults applied, maxAttempts computed, first pass of the loop.
HcStart ==
  /\ hcPc = "call"
  /\ HcEnterLoop(0)
  /\ UNCHANGED <<notHc, hcTimeoutSeconds, hcIntervalMs, hcExpectedStatus,
                 hcRequestTimeoutMs, hcWaits, hcLog>>

\* The peer accepts the request and never answers it.
HcPeerSilent ==
  /\ hcPc = "fetch"
  /\ hcReq = "pending"
  /\ hcReq' = "silent"
  /\ UNCHANGED <<notHc, hcTimeoutSeconds, hcIntervalMs, hcExpectedStatus,
                 hcRequestTimeoutMs, hcPc, hcAttempt, hcProbes, hcTimers, hcWaits,
                 hcLog, hcResult, hcError, hcSettled>>

\* fetch resolves with a response: the attempt's timer is cleared; the function
\* returns when the response passes, otherwise the loop body goes on.
HcFetchResolves ==
  /\ hcPc = "fetch"
  /\ hcReq = "pending"
  /\ hcReq' = "none"
  /\ hcTimers' = hcTimers \ {hcAttempt}
  /\ \E status \in HcStatuses :
       /\ hcLog' = Append(hcLog, HcResponse(hcAttempt, status))
       /\ IF HcPasses(status)
          THEN /\ hcPc' = "done"
               /\ hcResult' = "ok"
               /\ hcSettled' = hcSettled + 1
               /\ UNCHANGED <<hcAttempt, hcWaits, hcError>>
          ELSE HcAfterAttempt
  /\ UNCHANGED <<notHc, hcTimeoutSeconds, hcIntervalMs, hcExpectedStatus,
                 hcRequestTimeoutMs, hcProbes>>

\* fetch rejects with a network error: the catch block; the attempt's timer, if
\* any, is left pending.
HcFetchRejects ==
  /\ hcPc = "fetch"
  /\ hcReq = "pending"
  /\ hcReq' = "none"
  /\ hcLog' = Append(hcLog, HcRejected(hcAttempt))
  /\ HcCatch
  /\ UNCHANGED <<notHc, hcTimeoutSeconds, hcIntervalMs, hcExpectedStatus,
                 hcRequestTimeoutMs, hcProbes, hcTimers>>

\* The requestTimeout timer of attempt i fires and aborts the controller of
\* attempt i: the request of attempt i, when it is still in flight, rejects with
\* an AbortError (the catch block); nothing else has that controller's signal.
HcRequestTimerFires ==
  \E i \in hcTimers :
    /\ hcTimers' = hcTimers \ {i}
    /\ IF HcAbortHits(i)
       THEN /\ hcReq' = "none"
            /\ hcLog' = Append(hcLog, HcAborted(i))
            /\ HcCatch
       ELSE UNCHANGED <<hcPc, hcAttempt, hcReq, hcWaits, hcLog, hcResult, hcError,
                        hcSettled>>
    /\ UNCHANGED <<notHc, hcTimeoutSeconds, hcIntervalMs, hcExpectedStatus,
                   hcRequestTimeoutMs, hcProbes>>

\* The delay timer fires: attempt++ and the next pass of the loop.
HcDelayElapsed ==
  /\ hcPc = "delay"
  /\ HcEnterLoop(hcAttempt + 1)
  /\ UNCHANGED <<notHc, hcTimeoutSeconds, hcIntervalMs, hcExpectedStatus,
                 hcRequestTimeoutMs, hcWaits, hcLog>>

NextHc ==
  \/ HcStart
  \/ HcPeerSilent
  \/ HcFetchResolves
  \/ HcFetchRejects
  \/ HcRequestTimerFires
  \/ HcDelayElapsed

\* A call of waitForHealthCheck with options from the bounded sets
\* (timeoutSeconds >= 0, intervalMs > 0; 0 stands for an option not supplied).
InitHc ==
  /\ hcTimeoutSeconds \in 0..MaxTimeoutSeconds
  /\ hcIntervalMs \in HcIntervalChoices
  /\ hcExpectedStatus \in HcExpectedChoices
  /\ hcRequestTimeoutMs \in HcRequestTimeoutChoices
  /\ hcPc = "call"
  /\ hcAttempt = 0
  /\ hcProbes = 0
  /\ hcReq = "none"
  /\ hcTimers = {}
  /\ hcWaits = <<>>
  /\ hcLog = <<>>
  /\ hcResult = "pending"
  /\ hcError = ""
  /\ hcSettled = 0

(***************************************************************************)
(* waitForDeploymentCompletion                                             *)
(***************************************************************************)
\* `const pollInterval = 10000`.
DpPollInterval == 10000

\* Time a status request may take before it settles, in ms.
DpLatencies == {0, 2000}
DpHttpStatuses == {200, 500}
\* `status.status` of a parsed status response.
DpStates == {"pending", "in_progress", "completed", "failed", "queued"}
\* `status.error` of a parsed status response, "" when absent.
DpErrors == {"", "Build compilation failed"}
DpFetchError == "fetch failed"
DpJsonError == "Unexpected end of JSON input"

\* How a status check ended: a parsed status, a non-success response, or a
\* rejection of fetch or of response.json().
DpReported(state, error) == [kind |-> "status", state |-> state, error |-> error, http |-> 200]
DpHttpFailure(status) == [kind |-> "http", state |-> "", error |-> "", http |-> status]
DpRejected(msg) == [kind |-> "rejected", state |-> "", error |-> msg, http |-> 0]

\* `timeoutSeconds * 1000`.
DpTimeoutMs == dpTimeoutSeconds * 1000

\* `Deployment timed out after ${timeoutSeconds} seconds`.
DpTimeoutMessage ==
  "Deployment timed out after " \o ToString(dpTimeoutSeconds) \o " seconds"

\* `Status check failed: ${response.status} ${response.statusText}`.
DpStatusCheckMessage(status) ==
  "Status check failed: " \o ToString(status) \o " " \o StatusText(status)

\* `Deployment failed: ${status.error || 'Deployment failed'}`.
DpFailedMessage(error) ==
  "Deployment failed: " \o (IF error = "" THEN "Deployment failed" ELSE error)

\* Fault variant of DpIsDeploymentFailure: no error is recognised as terminal.
DpIsDeploymentFailure_never(msg) == FALSE

\* `error.message.includes('Deployment failed:')` in the catch block.
DpIsDeploymentFailure(msg) == Contains(msg, "Deployment failed:")

\* The function throws; run's catch block hands the message to core.setFailed.
DpThrow(msg) ==
  /\ dpPc' = "done"
  /\ dpResult' = "error"
  /\ dpError' = msg
  /\ dpSettled' = dpSettled + 1
  /\ dpSetFailed' = msg

\* `await new Promise(resolve => setTimeout(resolve, pollInterval))`.
DpWait ==
  /\ dpPc' = "wait"
  /\ dpWaits' = Append(dpWaits, DpPollInterval)
  /\ UNCHANGED <<dpResult, dpError, dpSettled, dpSetFailed>>

\* The catch block: a deployment failure is rethrown, anything else is followed
\* by the poll delay.
DpCatch(msg) ==
  IF DpIsDeploymentFailure(msg)
  THEN DpThrow(msg) /\ UNCHANGED dpWaits
  ELSE DpWait

\* The loop condition at time now, then either the status request or the throw
\* after the loop.
DpEnterLoop(now) ==
  /\ dpNow' = now
  /\ IF now < DpTimeoutMs
     THEN /\ dpPc' = "fetch"
          /\ dpReq' = "pending"
          /\ dpChecks' = dpChecks + 1
          /\ UNCHANGED <<dpResult, dpError, dpSettled, dpSetFailed>>
     ELSE /\ DpThrow(DpTimeoutMessage)
          /\ UNCHANGED <<dpReq, dpChecks>>

\* The call: startTime is taken, first pass of the loop.
DpStart ==
  /\ dpPc = "call"
  /\ DpEnterLoop(0)
  /\ UNCHANGED <<notDp, dpTimeoutSeconds, dpWaits, dpLog>>

\* The peer accepts the status request and never answers it.
DpPeerSilent ==
  /\ dpPc = "fetch"
  /\ dpReq = "pending"
  /\ dpReq' = "silent"
  /\ UNCHANGED <<notDp, dpTimeoutSeconds, dpPc, dpNow, dpChecks, dpWaits, dpLog,
                 dpResult, dpError, dpSettled, dpSetFailed>>

\* fetch rejects with a network error: the catch block.
DpFetchRejects ==
  /\ dpPc = "fetch"
  /\ dpReq = "pending"
  /\ dpReq' = "none"
  /\ \E latency \in DpLatencies : dpNow' = dpNow + latency
  /\ dpLog' = Append(dpLog, DpRejected(DpFetchError))
  /\ DpCatch(DpFetchError)
  /\ UNCHANGED <<notDp, dpTimeoutSeconds, dpChecks>>

\* fetch resolves: a non-success response throws 'Status check failed' into the
\* catch block, a success response is parsed.
DpFetchResponds ==
  /\ dpPc = "fetch"
  /\ dpReq = "pending"
  /\ dpReq' = "none"
  /\ \E latency \in DpLatencies : dpNow' = dpNow + latency
  /\ \E status \in DpHttpStatuses :
       IF ResponseOk(status)
       THEN /\ dpPc' = "json"
            /\ UNCHANGED <<dpWaits, dpLog, dpResult, dpError, dpSettled, dpSetFailed>>
       ELSE /\ dpLog' = Append(dpLog, DpHttpFailure(status))
            /\ DpCatch(DpStatusCheckMessage(status))
  /\ UNCHANGED <<notDp, dpTimeoutSeconds, dpChecks>>

\* response.json() rejects: the catch block.
DpJsonRejects ==
  /\ dpPc = "json"
  /\ dpLog' = Append(dpLog, DpRejected(DpJsonError))
  /\ DpCatch(DpJsonError)
  /\ UNCHANGED <<notDp, dpTimeoutSeconds, dpNow, dpReq, dpChecks>>

\* Fault variant of DpIsCompleted: every status but 'failed' ends the wait.
DpIsCompleted_notFailed(state) == state # "failed"

\* `status.status === 'completed'`.
DpIsCompleted(state) == state = "completed"

\* response.json() resolves with the deployment status: completed returns,
\* failed throws 'Deployment failed: ...' into the catch block, anything else is
\* followed by the poll delay.
DpJsonResolves ==
  /\ dpPc = "json"
  /\ \E state \in DpStates, error \in DpErrors :
       /\ dpLog' = Append(dpLog, DpReported(state, error))
       /\ CASE DpIsCompleted(state) ->
                 /\ dpPc' = "done"
                 /\ dpResult' = "ok"
                 /\ dpSettled' = dpSettled + 1
                 /\ UNCHANGED <<dpWaits, dpError, dpSetFailed>>
            [] state = "failed" -> DpCatch(DpFailedMessage(error))
            [] OTHER -> DpWait
  /\ UNCHANGED <<notDp, dpTimeoutSeconds, dpNow, dpReq, dpChecks>>

\* The poll timer fires: the loop condition is evaluated again.
DpPollElapsed ==
  /\ dpPc = "wait"
  /\ DpEnterLoop(dpNow + DpPollInterval)
  /\ UNCHANGED <<notDp, dpTimeoutSeconds, dpWaits, dpLog>>

NextDp ==
  \/ DpStart
  \/ DpPeerSilent
  \/ DpFetchRejects
  \/ DpFetchResponds
  \/ DpJsonRejects
  \/ DpJsonResolves
  \/ DpPollElapsed

\* A call of waitForDeploymentCompletion with timeoutSeconds >= 0.
InitDp ==
  /\ dpTimeoutSeconds \in 0..MaxDeployTimeoutSeconds
  /\ dpPc = "call"
  /\ dpNow = 0
  /\ dpReq = "none"
  /\ dpChecks = 0
  /\ dpWaits = <<>>
  /\ dpLog = <<>>
  /\ dpResult = "pending"
  /\ dpError = ""
  /\ dpSettled = 0
  /\ dpSetFailed = ""

(***************************************************************************)
(* killProcessGracefully and the server-start action                       *)
(***************************************************************************)
\* `timeoutMs = 10000` (the default), `timeoutMs: 5000` of the cleanup handlers and
\* `timeoutMs: 10000` of the health-check failure path.
KpDefaultTimeoutMs == 10000
KpCleanupTimeoutMs == 5000
KpFailureTimeoutMs == 10000
\* options.timeoutMs / options.forceful of a direct call.
KpTimeoutChoices == {1000, KpDefaultTimeoutMs}
\* The PID a launch yields, 0 when there is none.
PsPids == {0, 1234}
\* How the managed process ends: exit code 0, a non-zero exit code, or a signal.
PsExitKinds == {"code0", "code1", "signal"}
HostSignalNames == {"SIGINT", "SIGTERM"}

\* One call of process.kill(signal): the signal, the value returned, and the call
\* of killProcessGracefully that made it.
PsSignal(signal, delivered, call) ==
  [signal |-> signal, delivered |-> delivered, call |-> call]

\* One call of killProcessGracefully: who made it, its options, how the returned
\* promise stands, the state of its SIGKILL timer (none, pending, fired, cleared)
\* with the delay it was armed with, and the number of 'exit' listeners it has
\* registered on the process.
KpCall(caller, timeoutMs, forceful) ==
  [caller |-> caller, timeoutMs |-> timeoutMs, forceful |-> forceful,
   result |-> "pending", error |-> "", timer |-> "none", delay |-> 0,
   listeners |-> 0]

\* Does the process object have an `on` method: a ChildProcess has, the object
\* literal {pid, killed, kill} of the PID-file variant has not.
PsHasOn == psKind = "child"

\* The value of process.kill(signal): true when the signal reaches a process.
PsKillDelivers == psAlive

\* process.killed after a kill call: a ChildProcess sets it when a signal was
\* delivered; the PID-file object never changes its `killed: false`.
PsKilledAfter(delivered) ==
  IF psKind = "child" THEN psKilled \/ delivered ELSE psKilled

\* resolve() / reject(error): a promise that is settled stays as it is.
KpResolve(call) ==
  IF call.result = "pending" THEN [call EXCEPT !.result = "ok"] ELSE call
KpReject(call, msg) ==
  IF call.result = "pending" THEN [call EXCEPT !.result = "error", !.error = msg] ELSE call

\* Fault variant of KpAlreadyTerminated: the killed flag is not consulted.
KpAlreadyTerminated_never == FALSE

\* `if (process.killed)`.
KpAlreadyTerminated == psKilled

\* Fault variant of KpReturnEarly: the early exit is a throw.
KpReturnEarly_throws(call) == KpReject(call, "Process is already terminated")

\* `core.info('Process is already terminated'); return`.
KpReturnEarly(call) == KpResolve(call)

\* Fault variant of KpHasPid: the PID is not checked.
KpHasPid_unchecked == TRUE

\* `process.pid` is truthy.
KpHasPid == psPid # 0

KpNoPidMessage == "Cannot kill process: PID is undefined"
\* The TypeError of `process.on(...)` on an object without `on`.
KpNoOnMessage == "process.on is not a function"
\* `Failed to send SIGTERM to process ${process.pid}`.
KpSigtermFailedMessage == "Failed to send SIGTERM to process " \o ToString(psPid)

\* The SIGKILL timer and the second 'exit' listener.
KpArmTimer(call) ==
  [call EXCEPT !.timer = "pending", !.delay = call.timeoutMs, !.listeners = 2]

\* Fault variant of KpAfterSigterm: no `return` after the reject.
KpAfterSigterm_noReturn(call, killResult) ==
  IF ~killResult
  THEN KpArmTimer(KpReject(call, KpSigtermFailedMessage))
  ELSE KpArmTimer(call)

\* What follows `const killResult = process.kill('SIGTERM')`: reject and return when
\* the signal was not sent, otherwise the SIGKILL timer and its 'exit' listener.
KpAfterSigterm(call, killResult) ==
  IF ~killResult
  THEN KpReject(call, KpSigtermFailedMessage)
  ELSE KpArmTimer(call)

\* killProcessGracefully(process, {timeoutMs, forceful}) up to its return.
KpInvoke(caller, timeoutMs, forceful) ==
  LET call == KpCall(caller, timeoutMs, forceful)
      id == Len(kpCalls) + 1
  IN IF KpAlreadyTerminated
     THEN /\ kpCalls' = Append(kpCalls, KpReturnEarly(call))
          /\ UNCHANGED <<psKills, psKilled>>
     ELSE IF ~KpHasPid
     THEN /\ kpCalls' = Append(kpCalls, KpReject(call, KpNoPidMessage))
          /\ UNCHANGED <<psKills, psKilled>>
     ELSE IF ~PsHasOn
     THEN /\ kpCalls' = Append(kpCalls, KpReject(call, KpNoOnMessage))
          /\ UNCHANGED <<psKills, psKilled>>
     ELSE /\ psKills' = Append(psKills, PsSignal("SIGTERM", PsKillDelivers, id))
          /\ psKilled' = PsKilledAfter(PsKillDelivers)
          /\ kpCalls' = Append(kpCalls,
                               KpAfterSigterm([call EXCEPT !.listeners = 1], PsKillDelivers))

\* Fault variant of KpExitClearsTimer: the timer survives the exit.
KpExitClearsTimer_never(call) == call

\* The second 'exit' listener: `clearTimeout(timeout)`.
KpExitClearsTimer(call) ==
  IF call.listeners = 2 /\ call.timer = "pending"
  THEN [call EXCEPT !.timer = "cleared"]
  ELSE call

\* The 'exit' listeners of one call, in the order of their registration.
KpOnExit(call) ==
  IF call.listeners = 0 THEN call ELSE KpExitClearsTimer(KpResolve(call))

\* Fault variant of KpOnTimeout: without the forceful option the callback only
\* warns.
KpOnTimeout_forcefulOnly(i) ==
  /\ IF kpCalls[i].forceful
     THEN /\ psKills' = Append(psKills, PsSignal("SIGKILL", PsKillDelivers, i))
          /\ psKilled' = PsKilledAfter(PsKillDelivers)
          /\ kpCalls' = [kpCalls EXCEPT ![i] = KpResolve([@ EXCEPT !.timer = "fired"])]
     ELSE /\ kpCalls' = [kpCalls EXCEPT ![i].timer = "fired"]
          /\ UNCHANGED <<psKills, psKilled>>

\* The callback of the SIGKILL timer of call i.
KpOnTimeout(i) ==
  /\ IF kpCalls[i].forceful
     THEN /\ psKills' = Append(psKills, PsSignal("SIGKILL", PsKillDelivers, i))
          /\ psKilled' = PsKilledAfter(PsKillDelivers)
     ELSE UNCHANGED <<psKills, psKilled>>
  /\ kpCalls' = [kpCalls EXCEPT ![i] = KpResolve([@ EXCEPT !.timer = "fired"])]

\* run's catch block: `core.setFailed(errorMessage)`.
RunThrow(msg) ==
  /\ runPc' = "done"
  /\ runFailed' = msg
  /\ runSetFailed' = runSetFailed + 1

RunSpawnFailedMessage ==
  IF runVariant = "spawn" THEN "Failed to start FTL server process"
  ELSE "Failed to get FTL server PID"
RunExitMessage(how) ==
  IF how = "signal" THEN "FTL server process terminated by signal SIGTERM"
  ELSE "FTL server process exited unexpectedly with code 1"
\* The 'error' listener of setupProcessEventHandlers, for an error whose message
\* is the one of the tests.
RunErrorMessage == "Server startup failed: Command not found: ftl"
\* A mis-reading of the 'exit' listener, in which only a signal rejects.
RunStartupRejects_signalOnly(how) == how = "signal"
\* The 'exit' listener of setupProcessEventHandlers rejects for a non-zero code
\* and for a signal.
RunStartupRejects(how) == how # "code0"
RunHealthMessage ==
  IF runVariant = "spawn" THEN "Server health check failed after 30s timeout"
  ELSE "MCP health check failed - server not responding to tools/list"

\* The inputs health-method and health-body: not given, or the ones of the tests.
RunHealthMethods == {"", "POST"}
RunHealthBodies == {"", "{ping: server}"}
RunNoProbe == [method |-> "", body |-> ""]
\* The options run hands to waitForHealthCheck: method and body are set only when
\* the inputs are given ("" stands for a property that is not set).
RunHealthCheckOptions == [method |-> runHealthMethod, body |-> runHealthBody]
\* The init object waitForHealthCheck hands to fetch for every attempt:
\* `{ method: 'GET', signal }`, whatever the options.
HcFetchInit(options) == [method |-> "GET", body |-> ""]
\* The PID-file variant probes with mcpHealthCheck: a POST of the tools/list request.
McpFetchInit == [method |-> "POST", body |-> "tools/list"]
RunProbeRequest ==
  IF runVariant = "spawn" THEN HcFetchInit(RunHealthCheckOptions) ELSE McpFetchInit

\* The cleanup callback registered for 'exit', 'SIGINT' and 'SIGTERM' of the host.
RunCleanup(event) ==
  IF ~psKilled
  THEN KpInvoke(event, KpCleanupTimeoutMs, TRUE)
  ELSE UNCHANGED <<kpCalls, psKills, psKilled>>

\* A caller other than the start action calls killProcessGracefully.
KpDirectCall ==
  /\ runVariant = "none"
  /\ Len(kpCalls) < MaxKillCalls
  /\ \E timeoutMs \in KpTimeoutChoices, forceful \in BOOLEAN :
       KpInvoke("direct", timeoutMs, forceful)
  /\ UNCHANGED <<notPs, psKind, psPid, psAlive, psEmitted, runVars, hostVars>>

\* The SIGKILL timer of call i fires.
KpTimerFires ==
  /\ ~hostExited
  /\ \E i \in 1..Len(kpCalls) :
       /\ kpCalls[i].timer = "pending"
       /\ KpOnTimeout(i)
  /\ UNCHANGED <<notPs, psKind, psPid, psAlive, psEmitted, runVars, hostVars>>

\* The managed process ends.  A ChildProcess emits 'exit': the listeners of every
\* call run, and during startup the listener of setupProcessEventHandlers rejects
\* unless the exit code is 0.  The PID-file object emits nothing.
PsExits ==
  /\ psAlive
  /\ psAlive' = FALSE
  /\ \E how \in PsExitKinds :
       /\ psEmitted' = IF psKind = "child" THEN how ELSE psEmitted
       /\ IF psKind = "child" /\ ~hostExited
          THEN /\ kpCalls' = [i \in DOMAIN kpCalls |-> KpOnExit(kpCalls[i])]
               /\ IF runPc = "startup" /\ RunStartupRejects(how)
                  THEN RunThrow(RunExitMessage(how))
                  ELSE UNCHANGED <<runPc, runFailed, runSetFailed>>
          ELSE UNCHANGED <<kpCalls, runPc, runFailed, runSetFailed>>
  /\ UNCHANGED <<notPs, psKind, psPid, psKilled, psKills, runVariant, runSkipHealth,
                 runHealthMethod, runHealthBody,
                 runHandlers, runExports, runProbing, runProbe, runOutputs, runHealthError,
                 hostVars>>

\* The ChildProcess emits 'error' while run awaits setupProcessEventHandlers, the
\* one place where a listener for it acts: the wait is rejected.
PsErrors ==
  /\ psKind = "child"
  /\ runVariant = "spawn"
  /\ runPc = "startup"
  /\ psEmitted' = "error"
  /\ RunThrow(RunErrorMessage)
  /\ UNCHANGED <<notPs, psKind, psPid, psKilled, psAlive, psKills, kpCalls, runVariant,
                 runSkipHealth, runHealthMethod, runHealthBody, runHandlers, runExports,
                 runProbing, runProbe, runOutputs, runHealthError, hostVars>>

\* The launch.  main.ts: spawn, then `if (!ftlProcess.pid) throw`, then the wait of
\* setupProcessEventHandlers.  PID-file variant: the script is run and the PID file
\* read, `if (!ftlPid || isNaN(ftlPid)) throw`, then the process object is built
\* and the cleanup handlers are registered.
RunSpawn ==
  /\ runPc = "spawn"
  /\ \E pid \in PsPids :
       /\ psPid' = pid
       /\ psAlive' = (pid # 0)
       /\ IF pid = 0
          THEN RunThrow(RunSpawnFailedMessage) /\ UNCHANGED runHandlers
          ELSE /\ runPc' = "startup"
               /\ runHandlers' = (runVariant = "script")
               /\ UNCHANGED <<runFailed, runSetFailed>>
  /\ UNCHANGED <<notPs, psKind, psKilled, psEmitted, psKills, kpCalls, runVariant, runSkipHealth,
                 runHealthMethod, runHealthBody,
                 runExports, runProbing, runProbe, runOutputs, runHealthError, hostVars>>

\* Fault variant of RunSkipsHealthCheck: the health check is never made.
RunSkipsHealthCheck_always == TRUE

\* `if (!options.skipHealthCheck) { ... } else { skipped }`.
RunSkipsHealthCheck == runSkipHealth

\* The startup wait is over.  main.ts: the cleanup handlers are registered, the
\* variables exported, and the health check started unless it is skipped.
\* PID-file variant: the variables are exported and the warm-up delay starts.
RunStartupElapsed ==
  /\ runPc = "startup"
  /\ ~hostExited
  /\ runExports' = TRUE
  /\ IF runVariant = "spawn"
     THEN /\ runHandlers' = TRUE
          /\ IF RunSkipsHealthCheck
             THEN /\ runPc' = "done"
                  /\ runOutputs' = TRUE
                  /\ UNCHANGED <<runProbing, runProbe>>
             ELSE /\ runPc' = "health"
                  /\ runProbing' = TRUE
                  /\ runProbe' = RunProbeRequest
                  /\ UNCHANGED runOutputs
     ELSE /\ runPc' = "warmup"
          /\ UNCHANGED <<runHandlers, runProbing, runProbe, runOutputs>>
  /\ UNCHANGED <<notPs, procVars, kpCalls, runVariant, runSkipHealth,
                 runHealthMethod, runHealthBody, runHealthError,
                 runFailed, runSetFailed, hostVars>>

\* PID-file variant: the warm-up delay is over and the health check starts.
RunWarmupElapsed ==
  /\ runPc = "warmup"
  /\ ~hostExited
  /\ runPc' = "health"
  /\ runProbing' = TRUE
  /\ runProbe' = RunProbeRequest
  /\ UNCHANGED <<notPs, procVars, kpCalls, runVariant, runSkipHealth,
                 runHealthMethod, runHealthBody, runHandlers,
                 runExports, runOutputs, runHealthError, runFailed, runSetFailed,
                 hostVars>>

\* The health check passes: the outputs are set.
RunHealthPasses ==
  /\ runPc = "health"
  /\ ~hostExited
  /\ runPc' = "done"
  /\ runOutputs' = TRUE
  /\ UNCHANGED <<notPs, procVars, kpCalls, runVariant, runSkipHealth,
                 runHealthMethod, runHealthBody, runHandlers,
                 runExports, runProbing, runProbe, runHealthError, runFailed, runSetFailed,
                 hostVars>>

\* The health check fails: killProcessGracefully is called and awaited.
RunHealthFails ==
  /\ runPc = "health"
  /\ ~hostExited
  /\ runPc' = "killing"
  /\ runHealthError' = RunHealthMessage
  /\ KpInvoke("failure", KpFailureTimeoutMs, TRUE)
  /\ UNCHANGED <<notPs, psKind, psPid, psAlive, psEmitted, runVariant, runSkipHealth,
                 runHealthMethod, runHealthBody, runHandlers,
                 runExports, runProbing, runProbe, runOutputs, runFailed, runSetFailed,
                 hostVars>>

\* The awaited call has settled (a rejection is only logged as a warning): the
\* error of the health check is thrown on and reported.
RunReportsFailure ==
  /\ runPc = "killing"
  /\ ~hostExited
  /\ \E i \in 1..Len(kpCalls) :
       kpCalls[i].caller = "failure" /\ kpCalls[i].result # "pending"
  /\ RunThrow(runHealthError)
  /\ UNCHANGED <<notPs, procVars, kpCalls, runVariant, runSkipHealth,
                 runHealthMethod, runHealthBody, runHandlers,
                 runExports, runProbing, runProbe, runOutputs, runHealthError, hostVars>>

\* The host receives SIGINT or SIGTERM: the cleanup callback runs.
HostSignalled ==
  /\ runHandlers
  /\ ~hostExited
  /\ hostSignals < MaxHostSignals
  /\ hostSignals' = hostSignals + 1
  /\ \E event \in HostSignalNames : RunCleanup(event)
  /\ UNCHANGED <<notPs, psKind, psPid, psAlive, psEmitted, runVars, hostExited>>

\* The host emits 'exit': the cleanup callback runs up to its await, and nothing
\* of the host runs afterwards.
HostExits ==
  /\ runHandlers
  /\ ~hostExited
  /\ hostExited' = TRUE
  /\ RunCleanup("exit")
  /\ UNCHANGED <<notPs, psKind, psPid, psAlive, psEmitted, runVars, hostSignals>>

NextPs ==
  \/ KpDirectCall
  \/ KpTimerFires
  \/ PsExits
  \/ PsErrors
  \/ RunSpawn
  \/ RunStartupElapsed
  \/ RunWarmupElapsed
  \/ RunHealthPasses
  \/ RunHealthFails
  \/ RunReportsFailure
  \/ HostSignalled
  \/ HostExits

\* Either one run of the server-start action in one of its two variants, or a
\* ChildProcess (with or without a PID) handed to direct callers.
InitPs ==
  /\ runVariant \in {"spawn", "script", "none"}
  /\ psKind = (IF runVariant = "script" THEN "mock" ELSE "child")
  /\ psPid \in (IF runVariant = "none" THEN PsPids ELSE {0})
  /\ psAlive = (psPid # 0)
  /\ psEmitted = "none"
  /\ psKilled = FALSE
  /\ psKills = <<>>
  /\ kpCalls = <<>>
  /\ runPc = (IF runVariant = "none" THEN "idle" ELSE "spawn")
  /\ runSkipHealth \in (IF runVariant = "spawn" THEN BOOLEAN ELSE {FALSE})
  /\ runHealthMethod \in (IF runVariant = "spawn" THEN RunHealthMethods ELSE {""})
  /\ runHealthBody \in (IF runVariant = "spawn" THEN RunHealthBodies ELSE {""})
  /\ runHandlers = FALSE
  /\ runExports = FALSE
  /\ runProbing = FALSE
  /\ runProbe = RunNoProbe
  /\ runOutputs = FALSE
  /\ runHealthError = ""
  /\ runFailed = ""
  /\ runSetFailed = 0
  /\ hostExited = FALSE
  /\ hostSignals = 0

(***************************************************************************)
(* obtainOAuthToken                                                        *)
(***************************************************************************)
OaClientIds == {"client-id", "sensitive-client-id-abc123", "ci", "a"}
OaClientSecrets == {"client-secret", "sensitive-client-secret-xyz789", "b"}
OaHttpStatuses == {200, 401, 500}
\* `access_token`, `token_type` and `expires_in` of the token response, "" and 0
\* when absent.
OaAccessTokens == {"", "test-token-123"}
\* JavaScript values a field of the parsed response can have.
OaJsUndefined == [type |-> "undefined", value |-> ""]
OaJsNull == [type |-> "null", value |-> ""]
OaJsString(s) == [type |-> "string", value |-> s]
\* tokenResponse.access_token: missing, null, or a string.
OaAccessTokenFields == {OaJsUndefined, OaJsNull} \cup {OaJsString(s) : s \in OaAccessTokens}
\* Is a value truthy: undefined, null and '' are not.
OaTruthy(v) == v.type = "string" /\ v.value # ""
\* `v || default`, with a string default.
OaOrString(v, default) == IF OaTruthy(v) THEN v ELSE OaJsString(default)
OaTokenTypes == {"", "Bearer", "MAC"}
OaExpiries == {0, 60, 7200}
\* What fetch rejects with: an Error with a message (one that quotes the request,
\* as an exception of the network layer may), or a value that is not an Error.
OaThrown(isError, message) == [isError |-> isError, message |-> message]
OaFetchErrors ==
  {OaThrown(TRUE, "Connection refused"),
   OaThrown(TRUE, "Failed to fetch https://oauth.example.com/token?client_secret="
                    \o oaClientSecret),
   OaThrown(FALSE, "String error")}
\* `error instanceof Error ? error.message : 'Unknown error'`.
OaErrorMessage(thrown) == IF thrown.isError THEN thrown.message ELSE "Unknown error"
OaJsonError == "Unexpected end of JSON input"
OaDefaultTokenType == "Bearer"
OaDefaultExpiresIn == 3600

OaNoToken == [accessToken |-> "", tokenType |-> "", expiresIn |-> 0]

\* `core.setSecret(value)` and `fetch(url, {method: 'POST', body: params})`.
OaSetSecret(value) == [op |-> "setSecret", value |-> value]
OaRequest(clientId, clientSecret) ==
  [op |-> "fetch",
   value |-> "grant_type=client_credentials&client_id=" \o clientId
               \o "&client_secret=" \o clientSecret \o "&scope=deploy"]

\* Fault variant of OaEntry: the credentials are masked after the request is sent.
OaEntry_maskLate ==
  <<OaRequest(oaClientId, oaClientSecret), OaSetSecret(oaClientId),
    OaSetSecret(oaClientSecret)>>

\* The function up to `await fetch`: both credentials are masked, then the
\* request is built and sent.
OaEntry ==
  <<OaSetSecret(oaClientId), OaSetSecret(oaClientSecret),
    OaRequest(oaClientId, oaClientSecret)>>

\* Fault variant of OaStatusMessage: the message names the client.
OaStatusMessage_withClient(status) ==
  "OAuth authentication failed: " \o ToString(status) \o " " \o StatusText(status)
    \o " for client " \o oaClientId

\* `OAuth authentication failed: ${response.status} ${response.statusText}`.
OaStatusMessage(status) ==
  "OAuth authentication failed: " \o ToString(status) \o " " \o StatusText(status)

\* The catch block: `throw new Error(`OAuth token acquisition failed: ${message}`)`.
OaCatch(msg) ==
  /\ oaPc' = "done"
  /\ oaResult' = "error"
  /\ oaError' = "OAuth token acquisition failed: " \o msg
  /\ oaSettled' = oaSettled + 1

\* The token built from the response, with its defaults.
OaBuildToken(accessToken, tokenType, expiresIn) ==
  [accessToken |-> accessToken,
   tokenType |-> IF tokenType = "" THEN OaDefaultTokenType ELSE tokenType,
   expiresIn |-> IF expiresIn = 0 THEN OaDefaultExpiresIn ELSE expiresIn]

\* The call up to `await fetch`.
OaStart ==
  /\ oaPc = "call"
  /\ oaPc' = "fetch"
  /\ oaReq' = "pending"
  /\ oaEvents' = oaEvents \o OaEntry
  /\ UNCHANGED <<notOa, oaClientId, oaClientSecret, oaStatus, oaRaw, oaToken, oaBodyToken, oaAccessToken,
                 oaResult,
                 oaError, oaSettled>>

\* The peer accepts the token request and never answers it.
OaPeerSilent ==
  /\ oaPc = "fetch"
  /\ oaReq = "pending"
  /\ oaReq' = "silent"
  /\ UNCHANGED <<notOa, oaClientId, oaClientSecret, oaPc, oaEvents, oaStatus, oaRaw,
                 oaToken, oaBodyToken, oaAccessToken,
                 oaResult, oaError, oaSettled>>

\* fetch rejects: the catch block.
OaFetchRejects ==
  /\ oaPc = "fetch"
  /\ oaReq = "pending"
  /\ oaReq' = "none"
  /\ \E thrown \in OaFetchErrors :
       /\ oaRaw' = thrown.message
       /\ OaCatch(OaErrorMessage(thrown))
  /\ UNCHANGED <<notOa, oaClientId, oaClientSecret, oaEvents, oaStatus, oaToken,
                 oaBodyToken, oaAccessToken>>

\* fetch resolves: a non-success response throws into the catch block, a success
\* response is parsed.
OaFetchResponds ==
  /\ oaPc = "fetch"
  /\ oaReq = "pending"
  /\ oaReq' = "none"
  /\ \E status \in OaHttpStatuses :
       /\ oaStatus' = status
       /\ IF ResponseOk(status)
          THEN oaPc' = "json" /\ UNCHANGED <<oaResult, oaError, oaSettled>>
          ELSE OaCatch(OaStatusMessage(status))
  /\ UNCHANGED <<notOa, oaClientId, oaClientSecret, oaEvents, oaRaw, oaToken,
                 oaBodyToken, oaAccessToken>>

\* response.json() rejects: the catch block.
OaJsonRejects ==
  /\ oaPc = "json"
  /\ oaRaw' = OaJsonError
  /\ OaCatch(OaJsonError)
  /\ UNCHANGED <<notOa, oaClientId, oaClientSecret, oaReq, oaEvents, oaStatus, oaToken,
                 oaBodyToken, oaAccessToken>>

\* response.json() resolves: the access token, when there is one, is masked and
\* the token is returned.
OaJsonResolves ==
  /\ oaPc = "json"
  /\ \E accessToken \in OaAccessTokenFields, tokenType \in OaTokenTypes,
        expiresIn \in OaExpiries :
       /\ oaEvents' = IF OaTruthy(accessToken)
                      THEN Append(oaEvents, OaSetSecret(accessToken.value))
                      ELSE oaEvents
       /\ oaBodyToken' = accessToken
       /\ oaAccessToken' = OaOrString(accessToken, "")
       /\ oaToken' = OaBuildToken(OaOrString(accessToken, "").value, tokenType, expiresIn)
  /\ oaPc' = "done"
  /\ oaResult' = "ok"
  /\ oaSettled' = oaSettled + 1
  /\ UNCHANGED <<notOa, oaClientId, oaClientSecret, oaReq, oaStatus, oaRaw, oaError>>

NextOa ==
  \/ OaStart
  \/ OaPeerSilent
  \/ OaFetchRejects
  \/ OaFetchResponds
  \/ OaJsonRejects
  \/ OaJsonResolves

\* A call of obtainOAuthToken with non-empty credentials.
InitOa ==
  /\ oaClientId \in OaClientIds
  /\ oaClientSecret \in OaClientSecrets
  /\ oaPc = "call"
  /\ oaReq = "none"
  /\ oaEvents = <<>>
  /\ oaStatus = 0
  /\ oaRaw = ""
  /\ oaToken = OaNoToken
  /\ oaBodyToken = OaJsUndefined
  /\ oaAccessToken = OaJsUndefined
  /\ oaResult = "pending"
  /\ oaError = ""
  /\ oaSettled = 0

\* ---------------------------------------------------------------------------
\* The token cache: cacheOAuthToken and getCachedOAuthToken over process.env
\* ---------------------------------------------------------------------------

TcClockStart == 1000
\* Milliseconds the clock may advance by between two calls.
TcAdvances == {1, 999, 1000, 7199000}

\* Values the three environment variables can hold when the step starts: they
\* are inherited from earlier steps of the job, so any string may be there.
TcEnvAccessTokens == {"", "cached-token"}
TcEnvTokenTypes == {"", "Bearer"}
TcEnvExpiries == {"", "invalid-timestamp", "tampered-value", "5000abc", "5000", "999"}

\* Tokens handed to cacheOAuthToken: what obtainOAuthToken builds, whose
\* accessToken is '' when the response carried none.
TcTokens ==
  [accessToken : {"", "cached-token-123"},
   tokenType : {"Bearer", "MAC"},
   expiresIn : {1, OaDefaultExpiresIn, 7200}]

\* The decimal digit a character stands for, -1 for any other character.
DigitOf(c) ==
  CASE c = "0" -> 0 [] c = "1" -> 1 [] c = "2" -> 2 [] c = "3" -> 3 [] c = "4" -> 4
    [] c = "5" -> 5 [] c = "6" -> 6 [] c = "7" -> 7 [] c = "8" -> 8 [] c = "9" -> 9
    [] OTHER -> -1

CharAt(s, i) == IF i <= Len(s) THEN SubSeq(s, i, i) ELSE ""

RECURSIVE SkipWhiteSpace(_, _)
SkipWhiteSpace(s, i) == IF CharAt(s, i) = " " THEN SkipWhiteSpace(s, i + 1) ELSE i

\* The longest run of digits of s from position i: where it ends, and its value.
RECURSIVE ParseDigits(_, _, _)
ParseDigits(s, i, acc) ==
  IF DigitOf(CharAt(s, i)) < 0
  THEN [end |-> i, value |-> acc]
  ELSE ParseDigits(s, i + 1, acc * 10 + DigitOf(CharAt(s, i)))

NaN == [nan |-> TRUE, value |-> 0]
Number(n) == [nan |-> FALSE, value |-> n]

\* parseInt(s, 10): leading white space is skipped, a sign is read, then the
\* longest prefix of digits is converted and whatever follows is ignored; NaN
\* when there is no digit.
parseInt(s) ==
  LET start == SkipWhiteSpace(s, 1)
      signed == CharAt(s, start) \in {"+", "-"}
      first == IF signed THEN start + 1 ELSE start
      digits == ParseDigits(s, first, 0)
  IN  IF digits.end = first
      THEN NaN
      ELSE Number(IF CharAt(s, start) = "-" THEN 0 - digits.value ELSE digits.value)

isNaN(n) == n.nan

\* `Date.now() + (token.expiresIn * 1000)`.
TcExpiryTimestamp(token, now) == now + token.expiresIn * 1000

\* cacheOAuthToken: the three core.exportVariable calls, which set process.env.
cacheOAuthToken(token, now) ==
  /\ FTL_AUTH_TOKEN' = token.accessToken
  /\ FTL_TOKEN_TYPE' = token.tokenType
  /\ FTL_TOKEN_EXPIRES' = ToString(TcExpiryTimestamp(token, now))

TcNull(why) ==
  [kind |-> "null", why |-> why, accessToken |-> "", tokenType |-> "", expiresIn |-> 0]
TcToken(accessToken, tokenType, expiresIn) ==
  [kind |-> "token", why |-> "", accessToken |-> accessToken, tokenType |-> tokenType,
   expiresIn |-> expiresIn]
\* No call of getCachedOAuthToken has just returned.
TcNoRead ==
  [kind |-> "none", why |-> "", accessToken |-> "", tokenType |-> "", expiresIn |-> 0]

\* `!accessToken || !tokenType || !expiresString`: unset or empty.
TcMissing == FTL_AUTH_TOKEN = "" \/ FTL_TOKEN_TYPE = "" \/ FTL_TOKEN_EXPIRES = ""

\* Fault variant of TcExpired: a token is still returned at its expiry instant.
TcExpired_strict(expiryTimestamp, now) == expiryTimestamp < now

\* `expiryTimestamp <= now`.
TcExpired(expiryTimestamp, now) == expiryTimestamp <= now

\* Fault variant of TcRemainingSeconds: rounded up.
TcRemainingSeconds_ceil(remainingMs) == (remainingMs + 999) \div 1000

\* `Math.floor(remainingMs / 1000)`, of a positive remainingMs.
TcRemainingSeconds(remainingMs) == remainingMs \div 1000

\* What getCachedOAuthToken returns at time now.
getCachedOAuthToken(now) ==
  LET expiryTimestamp == parseInt(FTL_TOKEN_EXPIRES)
  IN  IF TcMissing THEN TcNull("missing")
      ELSE IF isNaN(expiryTimestamp) THEN TcNull("invalid")
      ELSE IF TcExpired(expiryTimestamp.value, now) THEN TcNull("expired")
      ELSE TcToken(FTL_AUTH_TOKEN, FTL_TOKEN_TYPE,
                   TcRemainingSeconds(expiryTimestamp.value - now))

\* Fault variant of TcClockAfter: the clock goes backwards.
TcClockAfter_backwards(ms) == tcNow - ms

\* Date.now() after ms more milliseconds.
TcClockAfter(ms) == tcNow + ms

\* A call of cacheOAuthToken.
TcStore ==
  /\ tcStores < MaxStores
  /\ \E token \in TcTokens :
       /\ cacheOAuthToken(token, tcNow)
       /\ tcStored' = [has |-> TRUE, token |-> token, at |-> tcNow]
  /\ tcStores' = tcStores + 1
  /\ tcRead' = TcNoRead
  /\ tcExpiredSeen' = FALSE
  /\ UNCHANGED <<notTc, tcNow, tcAdvances>>

\* Time passes.
TcClockAdvances ==
  /\ tcAdvances < MaxAdvances
  /\ \E ms \in TcAdvances : tcNow' = TcClockAfter(ms)
  /\ tcAdvances' = tcAdvances + 1
  /\ tcRead' = TcNoRead
  /\ UNCHANGED <<notTc, FTL_AUTH_TOKEN, FTL_TOKEN_TYPE, FTL_TOKEN_EXPIRES, tcStores,
                 tcStored, tcExpiredSeen>>

\* A call of getCachedOAuthToken.
TcRead ==
  /\ tcRead' = getCachedOAuthToken(tcNow)
  /\ tcExpiredSeen' = (tcExpiredSeen \/ tcRead'.why = "expired")
  /\ UNCHANGED <<notTc, FTL_AUTH_TOKEN, FTL_TOKEN_TYPE, FTL_TOKEN_EXPIRES, tcNow,
                 tcAdvances, tcStores, tcStored>>

NextTc ==
  \/ TcStore
  \/ TcClockAdvances
  \/ TcRead

TcNothingStored ==
  [has |-> FALSE, token |-> [accessToken |-> "", tokenType |-> "", expiresIn |-> 0],
   at |-> 0]

\* The environment a step inherits, before any call.
InitTc ==
  /\ FTL_AUTH_TOKEN \in TcEnvAccessTokens
  /\ FTL_TOKEN_TYPE \in TcEnvTokenTypes
  /\ FTL_TOKEN_EXPIRES \in TcEnvExpiries
  /\ tcNow = TcClockStart
  /\ tcAdvances = 0
  /\ tcStores = 0
  /\ tcStored = TcNothingStored
  /\ tcRead = TcNoRead
  /\ tcExpiredSeen = FALSE

\* ---------------------------------------------------------------------------
\* The deploy action: run, getAuthToken and executeDeployment of ftl-eng-deploy
\* ---------------------------------------------------------------------------

DrProjects == {"", "test-project"}
\* The client-id and client-secret inputs, '' when not given.
DrClientIds == {"", "client-id"}
DrClientSecrets == {"", "client-secret"}
\* The deployment-timeout input, in seconds.
DrDeploymentTimeouts == {0, 5}
\* The cache variables the step inherits.
DrEnvExpiries == {"", "999", "5000"}
DrHttpStatuses == {200, 500}
DrErrorDetails == {"", "Invalid project configuration"}
DrFetchError == "Network timeout"
\* What the deployment endpoint answers.
DrDeployments ==
  [deployment_id : {"deploy-123"},
   status : {"pending", "completed"},
   url : {"", "https://app.ftl.dev/deployments/deploy-123"}]

DrNoDeployment == [deployment_id |-> "", status |-> "", url |-> ""]
DrOutput(name, value) == [name |-> name, value |-> value]

DrProjectRequiredMessage == "Project name is required"
DrAuthRequiredMessage ==
  "Authentication required. Provide client-id/client-secret or use authenticate-ftl action first."
\* `Authentication failed: ${errorMessage}`.
DrAuthFailedMessage(msg) == "Authentication failed: " \o msg
\* `Deployment failed: ${status} ${statusText}` and, when the body has an error,
\* ` - ${errorData.error}`.
DrDeployFailedMessage(status, detail) ==
  "Deployment failed: " \o ToString(status) \o " " \o StatusText(status)
    \o (IF detail = "" THEN "" ELSE " - " \o detail)
\* `Deployment request failed: ${errorMessage}`.
DrRequestFailedMessage(msg) == "Deployment request failed: " \o msg
DrParseFailedMessage == "Failed to parse deployment response: Invalid JSON"

\* The catch block of executeDeployment: an error whose message includes
\* 'Deployment failed:' is rethrown, any other is wrapped.
DrExecuteCatch(msg) ==
  IF Contains(msg, "Deployment failed:") THEN msg ELSE DrRequestFailedMessage(msg)

\* The catch block of run: `core.setFailed(errorMessage)`, then the run is over.
DrSetFailed(msg) ==
  /\ drPc' = "done"
  /\ drFailed' = Append(drFailed, msg)

\* executeDeployment up to `await fetch(deployUrl, ...)`: the request carries
\* `Authorization: Bearer ${token}`.
DrIssueRequest(token) ==
  /\ drPc' = "deploy"
  /\ drToken' = token
  /\ drRequests' = Append(drRequests, "Bearer " \o token)
  /\ drReq' = "pending"

\* Fault variant of DrUseCached: the cached token is ignored.
DrUseCached_never(cachedToken) == FALSE

\* `if (cachedToken)`.
DrUseCached(cachedToken) == cachedToken.kind = "token"

\* `if (clientId && clientSecret)`.
DrHasCredentials == oaClientId # "" /\ oaClientSecret # ""

\* Fault variant of DrCacheOn: the token is cached whatever the outcome.
DrCacheOn_always(result) == TRUE

\* cacheOAuthToken is reached when `await obtainOAuthToken(...)` did not throw.
DrCacheOn(result) == result = "ok"

\* run from its start to the first await: the project is validated, the inputs
\* are read, getAuthToken reads the cache and either returns the cached token
\* (then executeDeployment sends the request), calls obtainOAuthToken, or throws.
DrStart ==
  /\ drPc = "start"
  /\ tcRead' = IF drProject = "" THEN tcRead ELSE getCachedOAuthToken(tcNow)
  /\ IF drProject = ""
     THEN /\ DrSetFailed(DrProjectRequiredMessage)
          /\ UNCHANGED <<drToken, drRequests, drReq, drExchanges, oaPc>>
     ELSE IF DrUseCached(tcRead')
     THEN /\ DrIssueRequest(tcRead'.accessToken)
          /\ UNCHANGED <<drFailed, drExchanges, oaPc>>
     ELSE IF DrHasCredentials
     THEN /\ drPc' = "exchange"
          /\ drExchanges' = drExchanges + 1
          /\ oaPc' = "call"
          /\ UNCHANGED <<drToken, drRequests, drReq, drFailed>>
     ELSE /\ DrSetFailed(DrAuthRequiredMessage)
          /\ UNCHANGED <<drToken, drRequests, drReq, drExchanges, oaPc>>
  /\ UNCHANGED <<notDr, dpVars, oaClientId, oaClientSecret, oaReq, oaEvents, oaStatus,
                 oaRaw, oaToken, oaBodyToken, oaAccessToken,
                 oaResult, oaError, oaSettled, FTL_AUTH_TOKEN,
                 FTL_TOKEN_TYPE, FTL_TOKEN_EXPIRES, tcNow, tcAdvances, tcStores, tcStored,
                 tcExpiredSeen, drProject, drWait, drStatus, drDeployment, drOutputs,
                 drEnv0>>

\* `await obtainOAuthToken(...)` settles: on success the token is cached and the
\* deployment request is sent with it, on failure getAuthToken throws.
DrExchangeSettles ==
  /\ drPc = "exchange"
  /\ oaPc = "done"
  /\ IF DrCacheOn(oaResult)
     THEN /\ cacheOAuthToken(oaToken, tcNow)
          /\ tcStores' = tcStores + 1
          /\ tcStored' = [has |-> TRUE, token |-> oaToken, at |-> tcNow]
          /\ tcExpiredSeen' = FALSE
     ELSE UNCHANGED <<FTL_AUTH_TOKEN, FTL_TOKEN_TYPE, FTL_TOKEN_EXPIRES, tcStores,
                      tcStored, tcExpiredSeen>>
  /\ IF oaResult = "ok"
     THEN /\ DrIssueRequest(oaToken.accessToken)
          /\ UNCHANGED drFailed
     ELSE /\ DrSetFailed(DrAuthFailedMessage(oaError))
          /\ UNCHANGED <<drToken, drRequests, drReq>>
  /\ UNCHANGED <<notDr, dpVars, oaVars, tcNow, tcAdvances, tcRead, drProject, drWait,
                 drExchanges, drStatus, drDeployment, drOutputs, drEnv0>>

\* The peer accepts the deployment request and never answers it.
DrPeerSilent ==
  /\ drPc = "deploy"
  /\ drReq = "pending"
  /\ drReq' = "silent"
  /\ UNCHANGED <<notDr, dpVars, oaVars, tcVars, drProject, drWait, drPc, drToken,
                 drExchanges, drRequests, drStatus, drDeployment, drOutputs, drFailed,
                 drEnv0>>

\* fetch rejects: the catch blocks of executeDeployment and of run.
DrFetchRejects ==
  /\ drPc = "deploy"
  /\ drReq = "pending"
  /\ drReq' = "none"
  /\ DrSetFailed(DrExecuteCatch(DrFetchError))
  /\ UNCHANGED <<notDr, dpVars, oaVars, tcVars, drProject, drWait, drToken, drExchanges,
                 drRequests, drStatus, drDeployment, drOutputs, drEnv0>>

\* fetch resolves: the body of the response is read next.
DrFetchResponds ==
  /\ drPc = "deploy"
  /\ drReq = "pending"
  /\ drReq' = "none"
  /\ \E status \in DrHttpStatuses :
       /\ drStatus' = status
       /\ drPc' = IF ResponseOk(status) THEN "json" ELSE "errorJson"
  /\ UNCHANGED <<notDr, dpVars, oaVars, tcVars, drProject, drWait, drToken, drExchanges,
                 drRequests, drDeployment, drOutputs, drFailed, drEnv0>>

\* The body of a non-success response was read, or could not be parsed, which is
\* ignored: 'Deployment failed: ...' is thrown and reported.
DrErrorBodySettles ==
  /\ drPc = "errorJson"
  /\ \E detail \in DrErrorDetails :
       DrSetFailed(DrExecuteCatch(DrDeployFailedMessage(drStatus, detail)))
  /\ UNCHANGED <<notDr, dpVars, oaVars, tcVars, drProject, drWait, drToken, drExchanges,
                 drRequests, drReq, drStatus, drDeployment, drOutputs, drEnv0>>

\* response.json() of a success response rejects.
DrJsonRejects ==
  /\ drPc = "json"
  /\ DrSetFailed(DrExecuteCatch(DrParseFailedMessage))
  /\ UNCHANGED <<notDr, dpVars, oaVars, tcVars, drProject, drWait, drToken, drExchanges,
                 drRequests, drReq, drStatus, drDeployment, drOutputs, drEnv0>>

\* The outputs set from the deployment response.
DrInitialOutputs(deployment) ==
  <<DrOutput("deployment-id", deployment.deployment_id)>>
    \o (IF deployment.url # ""
        THEN <<DrOutput("deployment-url", deployment.url)>> ELSE <<>>)
    \o <<DrOutput("status", deployment.status)>>

\* response.json() resolves: the outputs are set, then waitForDeploymentCompletion
\* is called when wait-for-completion is set, otherwise the run is complete.
DrJsonResolves ==
  /\ drPc = "json"
  /\ \E deployment \in DrDeployments :
       /\ drDeployment' = deployment
       /\ drOutputs' = drOutputs \o DrInitialOutputs(deployment)
  /\ IF drWait
     THEN drPc' = "waiting" /\ dpPc' = "call"
     ELSE drPc' = "done" /\ UNCHANGED dpPc
  /\ UNCHANGED <<notDr, dpTimeoutSeconds, dpNow, dpReq, dpChecks, dpWaits, dpLog,
                 dpResult, dpError, dpSettled, dpSetFailed, oaVars, tcVars, drProject,
                 drWait, drToken, drExchanges, drRequests, drReq, drStatus, drFailed,
                 drEnv0>>

\* `await waitForDeploymentCompletion(...)` settles: on success the final status
\* is set as output; its error has been reported by the catch block of run.
DrWaitSettles ==
  /\ drPc = "waiting"
  /\ dpPc = "done"
  /\ drPc' = "done"
  /\ drOutputs' = IF dpResult = "ok"
                  THEN Append(drOutputs, DrOutput("status", "completed"))
                  ELSE drOutputs
  /\ UNCHANGED <<notDr, dpVars, oaVars, tcVars, drProject, drWait, drToken, drExchanges,
                 drRequests, drReq, drStatus, drDeployment, drFailed, drEnv0>>

NextDr ==
  \/ DrStart
  \/ OaStart
  \/ OaPeerSilent
  \/ OaFetchRejects
  \/ OaFetchResponds
  \/ OaJsonRejects
  \/ OaJsonResolves
  \/ DrExchangeSettles
  \/ DrPeerSilent
  \/ DrFetchRejects
  \/ DrFetchResponds
  \/ DrErrorBodySettles
  \/ DrJsonRejects
  \/ DrJsonResolves
  \/ DpStart
  \/ DpPeerSilent
  \/ DpFetchRejects
  \/ DpFetchResponds
  \/ DpJsonRejects
  \/ DpJsonResolves
  \/ DpPollElapsed
  \/ DrWaitSettles

\* A run of the deploy action: its inputs, the cache variables it inherits, and
\* obtainOAuthToken and waitForDeploymentCompletion not yet called.
InitDr ==
  /\ drProject \in DrProjects
  /\ drWait \in BOOLEAN
  /\ drPc = "start"
  /\ drToken = ""
  /\ drExchanges = 0
  /\ drRequests = <<>>
  /\ drReq = "none"
  /\ drStatus = 0
  /\ drDeployment = DrNoDeployment
  /\ drOutputs = <<>>
  /\ drFailed = <<>>
  /\ FTL_AUTH_TOKEN \in TcEnvAccessTokens
  /\ FTL_TOKEN_TYPE = "Bearer"
  /\ FTL_TOKEN_EXPIRES \in DrEnvExpiries
  /\ drEnv0 = <<FTL_AUTH_TOKEN, FTL_TOKEN_TYPE, FTL_TOKEN_EXPIRES>>
  /\ tcNow = TcClockStart
  /\ tcAdvances = 0
  /\ tcStores = 0
  /\ tcStored = TcNothingStored
  /\ tcRead = TcNoRead
  /\ tcExpiredSeen = FALSE
  /\ oaClientId \in DrClientIds
  /\ oaClientSecret \in DrClientSecrets
  /\ oaPc = "idle"
  /\ oaReq = "none"
  /\ oaEvents = <<>>
  /\ oaStatus = 0
  /\ oaRaw = ""
  /\ oaToken = OaNoToken
  /\ oaBodyToken = OaJsUndefined
  /\ oaAccessToken = OaJsUndefined
  /\ oaResult = "pending"
  /\ oaError = ""
  /\ oaSettled = 0
  /\ dpTimeoutSeconds \in DrDeploymentTimeouts
  /\ dpPc = "idle"
  /\ dpNow = 0
  /\ dpReq = "none"
  /\ dpChecks = 0
  /\ dpWaits = <<>>
  /\ dpLog = <<>>
  /\ dpResult = "pending"
  /\ dpError = ""
  /\ dpSettled = 0
  /\ dpSetFailed = ""

\* No download is in progress (the state the other primitives run in).
QuietDl ==
  /\ dlMaxRetries = 0
  /\ dlBackoffMs = 0
  /\ dlPc = "idle"
  /\ dlAttempt = 0
  /\ dlLastError = NullError
  /\ dlRequests = 0
  /\ dlInFlight = 0
  /\ dlAbortTimer = FALSE
  /\ dlDelays = <<>>
  /\ dlData = <<>>
  /\ dlFsLog = <<>>
  /\ dlErrLog = <<>>
  /\ fsDir = FALSE
  /\ fsFile = NoFile
  /\ fsDir0 = FALSE
  /\ fsFile0 = NoFile
  /\ dlResult = "pending"
  /\ dlError = ""
  /\ dlSettled = 0

\* No health check is in progress.
QuietHc ==
  /\ hcTimeoutSeconds = 0
  /\ hcIntervalMs = 1
  /\ hcExpectedStatus = 0
  /\ hcRequestTimeoutMs = 0
  /\ hcPc = "idle"
  /\ hcAttempt = 0
  /\ hcProbes = 0
  /\ hcReq = "none"
  /\ hcTimers = {}
  /\ hcWaits = <<>>
  /\ hcLog = <<>>
  /\ hcResult = "pending"
  /\ hcError = ""
  /\ hcSettled = 0

\* No deployment is being waited for.
QuietDp ==
  /\ dpTimeoutSeconds = 0
  /\ dpPc = "idle"
  /\ dpNow = 0
  /\ dpReq = "none"
  /\ dpChecks = 0
  /\ dpWaits = <<>>
  /\ dpLog = <<>>
  /\ dpResult = "pending"
  /\ dpError = ""
  /\ dpSettled = 0
  /\ dpSetFailed = ""

\* No process is managed.
QuietPs ==
  /\ runVariant = "none"
  /\ psKind = "child"
  /\ psPid = 0
  /\ psAlive = FALSE
  /\ psEmitted = "none"
  /\ psKilled = FALSE
  /\ psKills = <<>>
  /\ kpCalls = <<>>
  /\ runPc = "idle"
  /\ runSkipHealth = FALSE
  /\ runHealthMethod = ""
  /\ runHealthBody = ""
  /\ runHandlers = FALSE
  /\ runExports = FALSE
  /\ runProbing = FALSE
  /\ runProbe = RunNoProbe
  /\ runOutputs = FALSE
  /\ runHealthError = ""
  /\ runFailed = ""
  /\ runSetFailed = 0
  /\ hostExited = FALSE
  /\ hostSignals = 0

\* No token is being obtained.
QuietOa ==
  /\ oaClientId = ""
  /\ oaClientSecret = ""
  /\ oaPc = "idle"
  /\ oaReq = "none"
  /\ oaEvents = <<>>
  /\ oaStatus = 0
  /\ oaRaw = ""
  /\ oaToken = OaNoToken
  /\ oaBodyToken = OaJsUndefined
  /\ oaAccessToken = OaJsUndefined
  /\ oaResult = "pending"
  /\ oaError = ""
  /\ oaSettled = 0

\* The token cache is empty and not used.
QuietTc ==
  /\ FTL_AUTH_TOKEN = ""
  /\ FTL_TOKEN_TYPE = ""
  /\ FTL_TOKEN_EXPIRES = ""
  /\ tcNow = TcClockStart
  /\ tcAdvances = 0
  /\ tcStores = 0
  /\ tcStored = TcNothingStored
  /\ tcRead = TcNoRead
  /\ tcExpiredSeen = FALSE

\* The deploy action is not run.
QuietDr ==
  /\ drProject = ""
  /\ drWait = FALSE
  /\ drPc = "idle"
  /\ drToken = ""
  /\ drExchanges = 0
  /\ drRequests = <<>>
  /\ drReq = "none"
  /\ drStatus = 0
  /\ drDeployment = DrNoDeployment
  /\ drOutputs = <<>>
  /\ drFailed = <<>>
  /\ drEnv0 = <<"", "", "">>

InitSpecDl == InitDl /\ QuietHc /\ QuietDp /\ QuietPs /\ QuietOa /\ QuietTc /\ QuietDr

SpecDl == InitSpecDl /\ [][NextDl]_vars

InitSpecHc == QuietDl /\ InitHc /\ QuietDp /\ QuietPs /\ QuietOa /\ QuietTc /\ QuietDr

SpecHc == InitSpecHc /\ [][NextHc]_vars

InitSpecDp == QuietDl /\ QuietHc /\ InitDp /\ QuietPs /\ QuietOa /\ QuietTc /\ QuietDr

InitSpecPs == QuietDl /\ QuietHc /\ QuietDp /\ InitPs /\ QuietOa /\ QuietTc /\ QuietDr

SpecPs == InitSpecPs /\ [][NextPs]_vars

InitSpecOa == QuietDl /\ QuietHc /\ QuietDp /\ QuietPs /\ InitOa /\ QuietTc /\ QuietDr

SpecOa == InitSpecOa /\ [][NextOa]_vars

SpecDp == InitSpecDp /\ [][NextDp]_vars

InitSpecTc == QuietDl /\ QuietHc /\ QuietDp /\ QuietPs /\ QuietOa /\ InitTc /\ QuietDr

SpecTc == InitSpecTc /\ [][NextTc]_vars

InitSpecDr == QuietDl /\ QuietHc /\ QuietPs /\ InitDr

SpecDr == InitSpecDr /\ [][NextDr]_vars

\* One run of an action: of the deploy action, or of the server-start action.
InitSpecRuns ==
  /\ QuietDl
  /\ QuietHc
  /\ \/ QuietPs /\ InitDr
     \/ QuietDp /\ QuietOa /\ QuietTc /\ QuietDr /\ InitPs /\ runVariant # "none"

NextRuns ==
  \/ DrStart
  \/ OaStart
  \/ OaPeerSilent
  \/ OaFetchRejects
  \/ OaFetchResponds
  \/ OaJsonRejects
  \/ OaJsonResolves
  \/ DrExchangeSettles
  \/ DrPeerSilent
  \/ DrFetchRejects
  \/ DrFetchResponds
  \/ DrErrorBodySettles
  \/ DrJsonRejects
  \/ DrJsonResolves
  \/ DpStart
  \/ DpPeerSilent
  \/ DpFetchRejects
  \/ DpFetchResponds
  \/ DpJsonRejects
  \/ DpJsonResolves
  \/ DpPollElapsed
  \/ DrWaitSettles
  \/ KpTimerFires
  \/ PsExits
  \/ PsErrors
  \/ RunSpawn
  \/ RunStartupElapsed
  \/ RunWarmupElapsed
  \/ RunHealthPasses
  \/ RunHealthFails
  \/ RunReportsFailure
  \/ HostSignalled
  \/ HostExits

SpecRuns == InitSpecRuns /\ [][NextRuns]_vars

\* All primitives, each called once.
Init == InitDl /\ InitHc /\ InitDp /\ InitPs /\ InitOa /\ InitTc /\ QuietDr

Next == NextDl \/ NextHc \/ NextDp \/ NextPs \/ NextOa \/ NextTc

Spec == Init /\ [][Next]_vars

(***************************************************************************)
(* Properties of downloadWithRetry, checked under SpecDl.                  *)
(***************************************************************************)
\* The attempt whose request is the latest one (1-based).
DlAttemptNo == dlAttempt + 1

\* The message the environment's failure f reaches the catch block with.
DlMessageOf(f) ==
  IF f.kind = "http"
  THEN "HTTP " \o ToString(f.status) \o ": " \o StatusText(f.status)
  ELSE f.message

\* The settled filesystem calls of kind op.
DlFsCalls(op) == {i \in 1..Len(dlFsLog) : dlFsLog[i].op = op}

\* The writeFile calls that changed the file at outputPath.
DlFileWrites == {i \in DlFsCalls("write") : dlFsLog[i].touched}

\* C1: with maxRetries = N >= 1 and every attempt failing, exactly N requests are
\* issued, the delay slept after failed attempt k (k = 0..N-2) is exactly
\* backoffMs * 2^k, and no delay follows the last failed attempt.
C1_PersistentFailure ==
  (dlResult = "error" /\ dlMaxRetries >= 1) =>
    /\ dlRequests = dlMaxRetries
    /\ Len(dlErrLog) = dlMaxRetries
    /\ Len(dlDelays) = dlMaxRetries - 1
    /\ \A k \in 0..(dlMaxRetries - 2) : dlDelays[k + 1] = dlBackoffMs * (2 ^ k)
    /\ dlPc = "done"

C1_Witness ==
  /\ dlResult = "error"
  /\ dlMaxRetries = 3
  /\ dlRequests = 3
  /\ dlBackoffMs = 1000
  /\ dlDelays = <<1000, 2000>>

\* C2: at every moment at most one request is in flight and the number of requests
\* never exceeds maxRetries; a request is issued only when none is in flight, and
\* every request but the first is issued by the expiry of the backoff timer that
\* followed the failure of the previous attempt.
C2_Sequential ==
  /\ [](dlInFlight <= 1 /\ dlRequests <= dlMaxRetries)
  /\ [][dlRequests' # dlRequests =>
          /\ dlRequests' = dlRequests + 1
          /\ dlInFlight = 0
          /\ \/ dlRequests = 0 /\ dlPc = "call"
             \/ /\ dlPc = "sleep"
                /\ Len(dlErrLog) = dlRequests
                /\ Len(dlDelays) = dlRequests]_vars

C2_Witness ==
  /\ dlMaxRetries = 3
  /\ dlRequests = 3
  /\ dlInFlight = 1

\* C3: whenever the operation ends with an error, neither the destination file nor
\* its parent directory was created or modified.
C3_NothingWrittenOnFailure ==
  dlResult = "error" => (fsDir = fsDir0 /\ fsFile = fsFile0)

\* C4: when all attempts are exhausted the operation fails with exactly one error,
\* whose message names maxRetries as the attempt count and the message of the error
\* of the last attempt; a non-success status counts as 'HTTP <status>: <statusText>'.
C4_AggregateError ==
  (dlResult = "error" /\ dlRequests >= 1) =>
    /\ dlSettled = 1
    /\ Len(dlErrLog) = dlMaxRetries
    /\ dlError = "Download failed after " \o ToString(dlMaxRetries) \o " attempts: "
                   \o DlMessageOf(dlErrLog[Len(dlErrLog)])

C4_Witness ==
  /\ dlResult = "error"
  /\ dlMaxRetries = 2
  /\ dlErrLog = <<Rejected("Network error"), HttpFailure(404)>>
  /\ dlError = "Download failed after 2 attempts: HTTP 404: Not Found"

HcBudget ==
  LET ms == hcTimeoutSeconds * 1000
      n == CHOOSE m \in 0..ms :
             m * hcIntervalMs >= ms /\ (m = 0 \/ (m - 1) * hcIntervalMs < ms)
  IN n + 1

\* The probe recorded in e ended with a success response that has the status the
\* caller expects (any success status when none is expected).
HcReady(e) ==
  /\ e.kind = "response"
  /\ ResponseOk(e.status)
  /\ hcExpectedStatus # 0 => e.status = hcExpectedStatus

\* The probe recorded in e threw (network error or abort) or returned a
\* non-success status.
HcFailed(e) == e.kind # "response" \/ ~ResponseOk(e.status)

\* C6: when no probe succeeds, exactly ceil(timeoutSeconds*1000 / intervalMs) + 1
\* probes are made, the operation fails as soon as the last of them has failed, and
\* the message of the timeout error contains the configured timeoutSeconds.
C6_BudgetExhausted ==
  /\ hcResult = "error" =>
       /\ hcProbes = HcBudget
       /\ Len(hcLog) = HcBudget
       /\ \A i \in 1..Len(hcLog) : ~HcReady(hcLog[i])
       /\ Contains(hcError, ToString(hcTimeoutSeconds))
       /\ hcError = "Server health check failed after "
                      \o ToString(hcTimeoutSeconds) \o "s timeout"
  /\ (hcResult = "pending" /\ hcPc # "idle") => Len(hcLog) < HcBudget

C6_Witness ==
  /\ hcResult = "error"
  /\ hcTimeoutSeconds = 2
  /\ hcIntervalMs = 1500
  /\ hcProbes = 3
  /\ hcError = "Server health check failed after 2s timeout"

\* C7: every call terminates exactly once: the promise is settled at most once, and
\* as long as it is not settled the call can still take a step (it never waits for
\* something that cannot happen).
C7_NeverHangs ==
  /\ hcSettled <= 1
  /\ (hcResult = "pending" /\ hcPc # "idle") => ENABLED NextHc

\* C8: when the k-th probe succeeds, exactly k probes were made, exactly k-1 waits
\* occurred, each of exactly intervalMs, one after each failed probe, and no wait
\* follows the successful probe.
C8_SuccessOnKth ==
  hcResult = "ok" =>
    LET k == Len(hcLog) IN
      /\ k >= 1
      /\ hcProbes = k
      /\ HcReady(hcLog[k])
      /\ \A i \in 1..(k - 1) : ~HcReady(hcLog[i])
      /\ Len(hcWaits) = k - 1
      /\ \A i \in 1..Len(hcWaits) : hcWaits[i] = hcIntervalMs
      /\ hcPc = "done"
      /\ hcSettled = 1

C8_Witness ==
  /\ hcResult = "ok"
  /\ hcProbes = 3
  /\ hcLog[1].kind = "rejected"
  /\ hcLog[2].kind = "rejected"
  /\ hcWaits = <<1000, 1000>>

\* C9: a probe that throws or returns a non-success status never ends the loop by
\* itself: it uses up exactly one attempt of the budget; when attempts remain the
\* call stays pending, waits, and then makes the next attempt; only the failure of
\* the last attempt of the budget ends the call, with the timeout error.
C9_FailureIsOneAttempt ==
  [][/\ (Len(hcLog') = Len(hcLog) + 1 /\ HcFailed(hcLog'[Len(hcLog')])) =>
          /\ hcProbes' = hcProbes
          /\ Len(hcLog') = hcProbes
          /\ hcResult' # "ok"
          /\ IF Len(hcLog') < HcBudget
             THEN hcResult' = "pending" /\ hcPc' = "delay"
             ELSE hcResult' = "error"
     /\ (hcPc = "delay" /\ hcPc' # "delay") =>
          /\ hcPc' = "fetch"
          /\ hcProbes' = hcProbes + 1
          /\ hcAttempt' = hcAttempt + 1]_vars

C9_Witness ==
  /\ hcPc = "fetch"
  /\ hcProbes = 3
  /\ Len(hcLog) = 2
  /\ hcLog[1].kind = "rejected"
  /\ hcLog[2] = HcResponse(1, 503)

\* C10: with an expected status supplied, the call returns success only on a probe
\* whose response is a success response with exactly that status; a success
\* response with another status is followed by a wait and a retry (or, on the last
\* attempt, by the timeout error), never by success.
C10_ExpectedStatus ==
  hcExpectedStatus # 0 =>
    /\ hcResult = "ok" =>
         LET last == hcLog[Len(hcLog)] IN
           /\ last.kind = "response"
           /\ ResponseOk(last.status)
           /\ last.status = hcExpectedStatus
    /\ \A i \in 1..Len(hcLog) :
         (hcLog[i].kind = "response" /\ ResponseOk(hcLog[i].status)
            /\ hcLog[i].status # hcExpectedStatus) =>
           /\ hcResult # "ok" \/ i < Len(hcLog)
           /\ hcPc = "delay" \/ hcProbes > i \/ hcResult = "error"

C10_Witness ==
  /\ hcExpectedStatus = 200
  /\ hcResult = "ok"
  /\ hcLog = <<HcResponse(0, 201), HcResponse(1, 200)>>

\* C11: with a per-attempt timeout configured, a probe that hangs still has its
\* timer pending, and the expiry of a timer aborts only the request of its own
\* attempt while that request is in flight: the aborted attempt is recorded as one
\* failed attempt, no probe is added or skipped, the loop goes on with a wait and
\* the next attempt (or, on the last attempt, ends with the timeout error), and the
\* expiry of a timer whose request is over changes nothing else.
C11_AbortOnlyInFlight ==
  /\ [](/\ (hcReq = "silent" /\ HcHasRequestTimeout) => hcAttempt \in hcTimers
        /\ hcProbes <= HcBudget
        /\ \A j \in 1..Len(hcLog) : hcLog[j].attempt = j - 1)
  /\ [][/\ (Len(hcLog') = Len(hcLog) + 1 /\ hcLog'[Len(hcLog')].kind = "aborted") =>
            /\ hcPc = "fetch" /\ hcReq # "none"
            /\ hcLog'[Len(hcLog')].attempt = hcAttempt
            /\ hcAttempt \in hcTimers /\ hcTimers' = hcTimers \ {hcAttempt}
            /\ hcProbes' = hcProbes
            /\ Len(hcLog') = hcProbes
            /\ IF Len(hcLog') < HcBudget
               THEN hcResult' = "pending" /\ hcPc' = "delay" /\ hcAttempt' = hcAttempt
               ELSE hcResult' = "error"
        /\ (hcTimers' # hcTimers /\ hcLog' = hcLog /\ hcProbes' = hcProbes) =>
            UNCHANGED <<hcPc, hcAttempt, hcReq, hcWaits, hcResult, hcError, hcSettled>>]_vars

C11_Witness ==
  /\ hcRequestTimeoutMs = 100
  /\ hcTimeoutSeconds = 2
  /\ hcIntervalMs = 1000
  /\ hcLog = <<HcRejected(0), HcAborted(1)>>
  /\ hcTimers = {0, 2}
  /\ hcProbes = 3
  /\ hcReq = "silent"

(***************************************************************************)
(* Properties of waitForDeploymentCompletion, checked under SpecDp.        *)
(***************************************************************************)
\* The status check recorded in e reported the deployment state `state`.
DpSaid(e, state) == e.kind = "status" /\ e.state = state

\* C12: a status check that reports 'failed' is the last thing the call does: the
\* call has thrown 'Deployment failed: <error>' ('Deployment failed' standing for an
\* absent error text), run reports that message, no status check was issued and no
\* poll delay was started after the check, and no further step is possible.
C12_FailedIsTerminal ==
  \A i \in 1..Len(dpLog) :
    DpSaid(dpLog[i], "failed") =>
      /\ i = Len(dpLog)
      /\ dpResult = "error"
      /\ dpSettled = 1
      /\ dpError = "Deployment failed: "
                     \o (IF dpLog[i].error = "" THEN "Deployment failed" ELSE dpLog[i].error)
      /\ dpSetFailed = dpError
      /\ dpChecks = i
      /\ Len(dpWaits) = i - 1
      /\ dpReq = "none"
      /\ ~ENABLED NextDp

C12_Witness ==
  /\ dpTimeoutSeconds = 21
  /\ dpLog = <<DpReported("in_progress", ""), DpReported("failed", "Build compilation failed")>>
  /\ dpError = "Deployment failed: Build compilation failed"
  /\ dpChecks = 2
  /\ dpWaits = <<10000>>

\* C13: a call whose status checks never report 'completed' or 'failed' does not
\* stay pending for ever (while it is pending a step is always possible), and when
\* it ends it has thrown 'Deployment timed out after <timeoutSeconds> seconds' and
\* run has reported exactly that message.
C13_TimesOut ==
  (\A i \in 1..Len(dpLog) : ~DpSaid(dpLog[i], "completed") /\ ~DpSaid(dpLog[i], "failed")) =>
    /\ (dpResult = "pending" /\ dpPc # "idle") => ENABLED NextDp
    /\ dpResult # "pending" =>
         /\ dpResult = "error"
         /\ dpError = "Deployment timed out after " \o ToString(dpTimeoutSeconds) \o " seconds"
         /\ dpSetFailed = dpError

(***************************************************************************)
(* Properties of killProcessGracefully and of the server-start action,    *)
(* checked under SpecPs.                                                   *)
(***************************************************************************)
\* The process.kill calls with the given signal, and those of them that reached
\* the process.
PsKillCalls(signal) == {k \in 1..Len(psKills) : psKills[k].signal = signal}
PsDelivered(signal) == {k \in PsKillCalls(signal) : psKills[k].delivered}

\* The process.kill calls with the given signal made by call i.
KpKillsOf(i, signal) == {k \in PsKillCalls(signal) : psKills[k].call = i}

\* C14: whatever calls of killProcessGracefully the failure path and the cleanup
\* callbacks make, and in whatever order, the process receives at most one SIGTERM
\* and at most one SIGKILL, hence at most two signals, and a SIGKILL is sent only
\* after a SIGTERM has been delivered.
C14_AtMostTwoSignals ==
  /\ Cardinality(PsDelivered("SIGTERM")) <= 1
  /\ Cardinality(PsDelivered("SIGKILL")) <= 1
  /\ Cardinality({k \in 1..Len(psKills) : psKills[k].delivered}) <= 2
  /\ \A k \in PsKillCalls("SIGKILL") :
       \E j \in PsDelivered("SIGTERM") : j < k

C14_Witness ==
  /\ runVariant = "spawn"
  /\ psKills = <<PsSignal("SIGTERM", TRUE, 1), PsSignal("SIGKILL", TRUE, 1)>>
  /\ Len(kpCalls) = 2
  /\ kpCalls[1].caller = "SIGINT"
  /\ kpCalls[2].caller = "failure"
  /\ hostSignals = 2
  /\ hostExited

\* C15: a call of killProcessGracefully on a process whose killed flag is set
\* returns successfully at once and does nothing else: no process.kill call, no
\* timer, no 'exit' listener, and the process object and the earlier calls are left
\* as they were; this holds for every such call.
C15_KilledIsNoop ==
  [][(psKilled /\ Len(kpCalls') = Len(kpCalls) + 1) =>
       LET c == kpCalls'[Len(kpCalls')] IN
         /\ c.result = "ok" /\ c.error = ""
         /\ c.timer = "none"
         /\ c.listeners = 0
         /\ psKills' = psKills
         /\ psKilled' /\ psAlive' = psAlive
         /\ SubSeq(kpCalls', 1, Len(kpCalls)) = kpCalls]_vars

C15_Witness ==
  /\ runVariant = "none"
  /\ psAlive /\ psKilled
  /\ Len(kpCalls) = 3
  /\ kpCalls[1].timer = "pending"
  /\ kpCalls[2].result = "ok" /\ kpCalls[2].listeners = 0
  /\ kpCalls[3].result = "ok" /\ kpCalls[3].listeners = 0
  /\ Len(psKills) = 1

\* C16: a call sends SIGKILL at most once, and exactly once if and only if its
\* timer fired (the timeout elapsed before the process reported exit) and forceful
\* is true; once the process has reported exit no timer is pending, a cleared
\* timer means no SIGKILL, and a call whose timer fired has resolved without error,
\* with forceful false without any SIGKILL.
C16_ForcefulKill ==
  \A i \in 1..Len(kpCalls) :
    LET c == kpCalls[i]
        kills == KpKillsOf(i, "SIGKILL")
    IN /\ Cardinality(kills) <= 1
       /\ (Cardinality(kills) = 1) <=> (c.timer = "fired" /\ c.forceful)
       /\ \A k \in kills : psKills[k].delivered
       /\ c.timer = "fired" => (c.result = "ok" /\ c.error = "")
       /\ c.timer = "cleared" => (kills = {} /\ c.result = "ok" /\ ~psAlive)
       /\ (~psAlive /\ ~hostExited) => c.timer # "pending"

C16_Witness ==
  /\ runVariant = "none"
  /\ Len(kpCalls) = 1
  /\ ~kpCalls[1].forceful
  /\ kpCalls[1].timeoutMs = 1000
  /\ kpCalls[1].timer = "fired"
  /\ kpCalls[1].result = "ok"
  /\ psKills = <<PsSignal("SIGTERM", TRUE, 1)>>
  /\ psAlive

\* C17: a call whose SIGTERM was not delivered has failed at once with 'Failed to
\* send SIGTERM to process <pid>', has no timer, and sends no SIGKILL.
C17_SigtermFailure ==
  \A k \in PsKillCalls("SIGTERM") :
    ~psKills[k].delivered =>
      LET i == psKills[k].call IN
        /\ kpCalls[i].result = "error"
        /\ kpCalls[i].error = "Failed to send SIGTERM to process " \o ToString(psPid)
        /\ Contains(kpCalls[i].error, "Failed to send SIGTERM")
        /\ kpCalls[i].timer = "none"
        /\ KpKillsOf(i, "SIGKILL") = {}

C17_Witness ==
  /\ runVariant = "spawn"
  /\ runPc = "done"
  /\ runFailed = "Server health check failed after 30s timeout"
  /\ psKills = <<PsSignal("SIGTERM", FALSE, 1)>>
  /\ kpCalls[1].caller = "failure"
  /\ kpCalls[1].error = "Failed to send SIGTERM to process 1234"

\* C18: a launch that yields no PID makes the start step fail before anything
\* else: no cleanup handler is registered, no variable exported, no health check
\* started, no output set; and every call of killProcessGracefully on a process
\* without a PID (whose killed flag is therefore not set) fails with 'Cannot kill
\* process: PID is undefined' without a process.kill call, a timer or a listener.
C18_NoPidIsFatal ==
  /\ (runVariant # "none" /\ runPc # "spawn" /\ psPid = 0) =>
       /\ runPc = "done"
       /\ runFailed = (IF runVariant = "spawn" THEN "Failed to start FTL server process"
                       ELSE "Failed to get FTL server PID")
       /\ ~runHandlers /\ ~runExports /\ ~runProbing /\ ~runOutputs
       /\ kpCalls = <<>>
       /\ ~ENABLED NextPs
  /\ psPid = 0 =>
       /\ psKills = <<>>
       /\ ~psKilled
       /\ \A i \in 1..Len(kpCalls) :
            /\ kpCalls[i].result = "error"
            /\ kpCalls[i].error = "Cannot kill process: PID is undefined"
            /\ kpCalls[i].timer = "none"
            /\ kpCalls[i].listeners = 0

C18_Witness ==
  /\ runVariant = "spawn"
  /\ psPid = 0
  /\ runPc = "done"
  /\ runFailed = "Failed to start FTL server process"
  /\ ~runHandlers /\ ~runExports /\ ~runProbing

\* C19: when run has reported the failure of the health check, process.kill was
\* called with SIGTERM before, by a call with timeoutMs 10000 and forceful true or
\* by an earlier cleanup; a process that is still running has received SIGTERM;
\* and the failure reported is the error of the health check.
C19_KillOnHealthFailure ==
  (runHealthError # "" /\ runPc = "done") =>
    /\ runFailed = runHealthError
    /\ PsKillCalls("SIGTERM") # {}
    /\ psAlive => PsDelivered("SIGTERM") # {}
    /\ \A i \in 1..Len(kpCalls) :
         kpCalls[i].caller = "failure" =>
           (kpCalls[i].timeoutMs = 10000 /\ kpCalls[i].forceful)

(***************************************************************************)
(* Properties of obtainOAuthToken, checked under SpecOa.                   *)
(***************************************************************************)
\* The positions of the core.setSecret(value) calls and of the token request.
\* The text of the rejection on a non-success status, written out.
OaStatusErrorText(status) ==
  "OAuth token acquisition failed: OAuth authentication failed: "
    \o ToString(status) \o " " \o StatusText(status)

\* s is a decimal number from its first character to its last.
TcIsNumber(s) == Len(s) > 0 /\ ParseDigits(s, 1, 0).end = Len(s) + 1

\* The stored expiry as a number, where it is one.
TcStoredExpiry == parseInt(FTL_TOKEN_EXPIRES).value

\* The expiry of the token last stored, and whether it is still running.
TcLastExpiry == TcExpiryTimestamp(tcStored.token, tcStored.at)
TcLastValid == tcStored.has /\ tcStored.at <= tcNow /\ tcNow < TcLastExpiry

\* The core.setFailed calls of a run of the deploy action: those of run's catch
\* block, the one after waitForDeploymentCompletion threw included.
DrSetFailedCalls == Len(drFailed) + (IF dpSetFailed # "" THEN 1 ELSE 0)

\* The run of the deploy action went through all its steps.
DrCompleted ==
  /\ drPc = "done"
  /\ drDeployment # DrNoDeployment
  /\ drWait => dpResult = "ok"

\* The signals that reached the managed process.
PsDeliveredCount == Cardinality({i \in DOMAIN psKills : psKills[i].delivered})

OaMasks(value) ==
  {i \in 1..Len(oaEvents) : oaEvents[i].op = "setSecret" /\ oaEvents[i].value = value}
OaRequests == {i \in 1..Len(oaEvents) : oaEvents[i].op = "fetch"}

\* C20: in every run, once the call has started both credentials have been passed
\* to core.setSecret, each before the token request was sent, and this is so
\* whether the run is still waiting, has returned a token, or has failed on a
\* non-success status or a thrown error.
C20_MaskedBeforeRequest ==
  /\ \A j \in OaRequests :
       /\ \E i \in OaMasks(oaClientId) : i < j
       /\ \E i \in OaMasks(oaClientSecret) : i < j
  /\ oaPc \in {"fetch", "json", "done"} =>
       /\ Cardinality(OaRequests) = 1
       /\ OaMasks(oaClientId) # {}
       /\ OaMasks(oaClientSecret) # {}
  /\ oaResult # "pending" => oaPc = "done"

C20_Witness ==
  /\ oaClientId = "sensitive-client-id-abc123"
  /\ oaClientSecret = "sensitive-client-secret-xyz789"
  /\ oaResult = "error"
  /\ oaError = "OAuth token acquisition failed: OAuth authentication failed: 401 Unauthorized"
  /\ oaEvents[1] = OaSetSecret("sensitive-client-id-abc123")
  /\ oaEvents[2] = OaSetSecret("sensitive-client-secret-xyz789")
  /\ oaEvents[3].op = "fetch"

\* C24: a run that failed on a non-success status has rejected with a message that
\* contains the status code and the status text and contains neither the clientId
\* nor the clientSecret as a substring.
C24_StatusErrorHidesCredentials ==
  (oaResult = "error" /\ oaStatus # 0 /\ ~ResponseOk(oaStatus)) =>
    /\ Contains(oaError, ToString(oaStatus))
    /\ Contains(oaError, StatusText(oaStatus))
    /\ ~Contains(oaError, oaClientId)
    /\ ~Contains(oaError, oaClientSecret)

\* C24, as amended: a run that failed on a non-success status has rejected with
\* exactly "OAuth token acquisition failed: OAuth authentication failed: <status>
\* <statusText>", so the message contains the status code and the status text and
\* no credential that is not by itself a substring of that text.
C24_StatusErrorFromStatusOnly ==
  (oaResult = "error" /\ oaStatus # 0 /\ ~ResponseOk(oaStatus)) =>
    /\ oaError = OaStatusErrorText(oaStatus)
    /\ Contains(oaError, ToString(oaStatus))
    /\ Contains(oaError, StatusText(oaStatus))
    /\ \A c \in {oaClientId, oaClientSecret} :
         ~Contains(OaStatusErrorText(oaStatus), c) => ~Contains(oaError, c)

\* C24 witness: status 401 answered to clientId "a" and clientSecret "b".
C24_Witness ==
  /\ oaResult = "error"
  /\ oaStatus = 401
  /\ oaClientId = "a"
  /\ oaClientSecret = "b"
  /\ oaError = "OAuth token acquisition failed: OAuth authentication failed: 401 Unauthorized"

\* C25: a run that failed because the token request threw does not carry the text
\* of the exception in the message of the error it raises, nor the clientSecret.
C25_NetworkErrorSanitized ==
  (oaResult = "error" /\ oaRaw # "") =>
    /\ ~Contains(oaError, oaRaw)
    /\ ~Contains(oaError, oaClientSecret)

\* C21: a getCachedOAuthToken call that returns a token found a stored expiry
\* strictly greater than the current time, and a token stored by cacheOAuthToken
\* is not returned at or after its expiry; otherwise the call returns null.
C21_NeverExpiredToken ==
  /\ tcRead.kind = "token" =>
       /\ ~isNaN(parseInt(FTL_TOKEN_EXPIRES))
       /\ TcStoredExpiry > tcNow
       /\ tcStored.has => tcNow < TcLastExpiry
  /\ (tcRead.kind = "null" /\ tcRead.why = "expired") => TcStoredExpiry <= tcNow

\* C21 witness: a token was stored, the clock reached its expiry exactly, and the
\* read returned null.
C21_Witness ==
  /\ tcStored.has
  /\ tcStored.token.accessToken # ""
  /\ tcNow = TcLastExpiry
  /\ tcRead.kind = "null"
  /\ tcRead.why = "expired"

\* C22: getCachedOAuthToken returns null exactly when a variable is absent, the
\* stored expiry is not a valid number, or the expiry is at or before now.
C22_NullExactlyWhenUnusable ==
  tcRead.kind # "none" =>
    (tcRead.kind = "null" <=>
       \/ TcMissing
       \/ ~TcIsNumber(FTL_TOKEN_EXPIRES)
       \/ TcStoredExpiry <= tcNow)

\* C23, as stated: after cacheOAuthToken(token) at t the variables hold accessToken,
\* tokenType and t + expiresIn*1000, and a read at t' in [t, t + expiresIn*1000)
\* returns the same accessToken and tokenType with the remaining whole seconds.
C23_RoundTrip ==
  tcStored.has =>
    /\ FTL_AUTH_TOKEN = tcStored.token.accessToken
    /\ FTL_TOKEN_TYPE = tcStored.token.tokenType
    /\ FTL_TOKEN_EXPIRES = ToString(TcLastExpiry)
    /\ (TcLastValid /\ tcRead.kind # "none") =>
         tcRead = TcToken(tcStored.token.accessToken, tcStored.token.tokenType,
                          (TcLastExpiry - tcNow) \div 1000)

\* C23, as amended: the same, for a token whose accessToken and tokenType are
\* not empty; a token with an empty accessToken is stored and read back as null.
C23_RoundTripNonEmpty ==
  tcStored.has =>
    /\ FTL_AUTH_TOKEN = tcStored.token.accessToken
    /\ FTL_TOKEN_TYPE = tcStored.token.tokenType
    /\ FTL_TOKEN_EXPIRES = ToString(TcLastExpiry)
    /\ (TcLastValid /\ tcRead.kind # "none") =>
         IF tcStored.token.accessToken # "" /\ tcStored.token.tokenType # ""
         THEN tcRead = TcToken(tcStored.token.accessToken, tcStored.token.tokenType,
                               (TcLastExpiry - tcNow) \div 1000)
         ELSE tcRead = TcNull("missing")

\* C23 witness: a token stored for 7200 seconds is read 7,200,000 ms before its
\* expiry and comes back with expiresIn 7200.
C23_Witness ==
  /\ tcStored.has
  /\ tcStored.token =
       [accessToken |-> "cached-token-123", tokenType |-> "Bearer", expiresIn |-> 7200]
  /\ TcLastExpiry - tcNow = 7200000
  /\ tcRead = TcToken("cached-token-123", "Bearer", 7200)

\* C29: a read changes none of the three variables, and once a read has returned
\* null for expiry, every read before the next cacheOAuthToken returns null.
C29_ExpiredStaysNull ==
  [][tcRead'.kind # "none" =>
       /\ UNCHANGED <<FTL_AUTH_TOKEN, FTL_TOKEN_TYPE, FTL_TOKEN_EXPIRES>>
       /\ tcExpiredSeen => tcRead'.kind = "null"]_vars

\* C29 witness: a stored token expired, a read returned null, the clock moved on
\* and the next read returned null with the variables still in place.
C29_Witness ==
  /\ tcStored.has
  /\ tcExpiredSeen
  /\ tcNow > TcLastExpiry
  /\ tcRead.kind = "null"
  /\ tcRead.why = "expired"
  /\ FTL_AUTH_TOKEN = "cached-token-123"
  /\ FTL_TOKEN_EXPIRES = ToString(TcLastExpiry)

\* C28: once the managed process has reported its exit, a killProcessGracefully
\* call (direct, from the failure path or from a cleanup callback) delivers no
\* signal and does not end in an error, and nothing else delivers a signal.
C28_NoSignalAfterExit ==
  [][(psKind = "child" /\ psPid # 0 /\ ~psAlive) =>
       /\ \A i \in DOMAIN psKills' : i > Len(psKills) => ~psKills'[i].delivered
       /\ \A i \in DOMAIN kpCalls' : i > Len(kpCalls) => kpCalls'[i].result # "error"]_vars

\* C26: when the getCachedOAuthToken call of the run returned a token, no
\* obtainOAuthToken call is made, cacheOAuthToken is not called and the three
\* variables stay as found, and the deployment request carries the cached access
\* token as its bearer token.
C26_CachedTokenUsed ==
  (drPc \notin {"idle", "start"} /\ tcRead.kind = "token") =>
    /\ drExchanges = 0
    /\ oaPc = "idle"
    /\ oaEvents = <<>>
    /\ tcStores = 0
    /\ <<FTL_AUTH_TOKEN, FTL_TOKEN_TYPE, FTL_TOKEN_EXPIRES>> = drEnv0
    /\ drRequests = <<"Bearer " \o drEnv0[1]>>

\* C26 witness: a run given credentials found a valid cached token and completed
\* with one deployment request.
C26_Witness ==
  /\ drPc = "done"
  /\ DrHasCredentials
  /\ tcRead.kind = "token"
  /\ drFailed = <<>>
  /\ drRequests = <<"Bearer cached-token">>

\* C27: cacheOAuthToken is called only after an obtainOAuthToken call that
\* succeeded.  A run with no valid cached token and with credentials makes exactly
\* one obtainOAuthToken call and, if it succeeded, exactly one cacheOAuthToken call
\* before the deployment request; when the call failed, or no credentials were
\* given, the three variables are as found and no deployment request is sent.
C27_CacheOnlyAfterExchange ==
  /\ tcStores > 0 => (drExchanges = 1 /\ oaResult = "ok")
  /\ (drPc \notin {"idle", "start"} /\ tcRead.kind = "null" /\ DrHasCredentials) =>
       /\ drExchanges = 1
       /\ (oaResult = "ok" /\ drPc # "exchange") =>
            /\ tcStores = 1
            /\ FTL_AUTH_TOKEN = oaToken.accessToken
            /\ FTL_TOKEN_TYPE = oaToken.tokenType
            /\ FTL_TOKEN_EXPIRES = ToString(tcNow + oaToken.expiresIn * 1000)
            /\ drRequests = <<"Bearer " \o oaToken.accessToken>>
       /\ drRequests # <<>> => (oaResult = "ok" /\ tcStores = 1)
  /\ (oaResult = "error" \/ (tcRead.kind = "null" /\ ~DrHasCredentials)) =>
       /\ tcStores = 0
       /\ <<FTL_AUTH_TOKEN, FTL_TOKEN_TYPE, FTL_TOKEN_EXPIRES>> = drEnv0
       /\ drRequests = <<>>
       /\ oaResult = "error" => (drPc = "exchange" \/ Len(drFailed) = 1)

\* C27 witness: a run that found an expired token exchanged its credentials once,
\* cached the new token and sent the deployment request with it.
C27_Witness ==
  /\ drPc = "done"
  /\ drEnv0 = <<"cached-token", "Bearer", "999">>
  /\ drExchanges = 1
  /\ tcStores = 1
  /\ FTL_AUTH_TOKEN = "test-token-123"
  /\ FTL_TOKEN_EXPIRES = "7201000"
  /\ drRequests = <<"Bearer test-token-123">>

\* C30: in a run of the deploy action and in a run of the server-start action
\* core.setFailed is called at most once, a run that is over has called it exactly
\* when it did not go through all its steps, and once it is called no request is
\* sent, no signal reaches the managed process and no output or variable is set.
C30_OneTerminalError ==
  [][/\ DrSetFailedCalls' <= 1
     /\ runSetFailed' <= 1
     /\ drPc' = "done" => (DrSetFailedCalls' = 1 <=> ~DrCompleted')
     /\ runPc' = "done" => (runSetFailed' = 1 <=> ~runOutputs')
     /\ DrSetFailedCalls = 1 =>
          UNCHANGED <<drRequests, drExchanges, dpChecks, oaEvents, drOutputs,
                      FTL_AUTH_TOKEN, FTL_TOKEN_TYPE, FTL_TOKEN_EXPIRES>>
     /\ runSetFailed = 1 =>
          /\ PsDeliveredCount' = PsDeliveredCount
          /\ UNCHANGED <<runOutputs, runExports>>]_vars

\* C31: a waitForDeploymentCompletion call whose status checks took no time and
\* never reported a terminal status, and which ran out of time, has made
\* ceil(timeoutMs / pollInterval) + 1 status checks and has waited one interval
\* between checks only, as waitForHealthCheck does with the same numbers.
C31_SameShapeAsHealthCheck ==
  (dpResult = "error" /\ dpError = DpTimeoutMessage
     /\ dpNow = Len(dpWaits) * DpPollInterval) =>
    /\ dpChecks = (DpTimeoutMs + DpPollInterval - 1) \div DpPollInterval + 1
    /\ Len(dpWaits) = dpChecks - 1

\* C32: a call that succeeded on a response without access_token (missing or
\* null) has made no masking call besides those of the two credentials, and has
\* returned a token whose accessToken is undefined, whose tokenType is the one of
\* the response or 'Bearer' and whose expiresIn is the one of the response or 3600.
C32_AbsentTokenStaysAbsent ==
  (oaResult = "ok" /\ oaBodyToken.type \in {"undefined", "null"}) =>
    /\ oaEvents = OaEntry
    /\ oaAccessToken.type = "undefined"
    /\ oaToken.tokenType \in (OaTokenTypes \ {""}) \cup {"Bearer"}
    /\ oaToken.expiresIn \in (OaExpiries \ {0}) \cup {3600}

\* C33: in a run of the server-start action that was given a health method and a
\* health body and has started its readiness check, the probes are issued with
\* that method and that body.
C33_ProbesUseGivenMethod ==
  (runVariant = "spawn" /\ runProbing /\ runHealthMethod # "" /\ runHealthBody # "") =>
    runProbe = [method |-> runHealthMethod, body |-> runHealthBody]

\* C34: once the server-start action has reported the failure of its readiness
\* check, after killing the process it launched, FTL_SERVER_URL and
\* FTL_SERVER_PID are not exported.
C34_NoExportsAfterFailedStart ==
  (runPc = "done" /\ runHealthError # "" /\ runFailed = runHealthError) => ~runExports

\* C35: when the server process launched by the server-start action emits 'exit'
\* with a non-zero code, or 'error', while the action waits for the startup
\* delay, that step ends the run with one reported failure carrying the message
\* of the event; and a run that failed with one of these messages has made no
\* readiness probe, exported no variables and set no outputs.
C35_StartupMessages ==
  {RunExitMessage("code1"), RunErrorMessage}
C35_EarlyDeathStep ==
  (runVariant = "spawn" /\ runPc = "startup" /\ psEmitted' # psEmitted
     /\ psEmitted' \in {"code1", "error"}) =>
    /\ runPc' = "done"
    /\ runFailed' = (IF psEmitted' = "error" THEN RunErrorMessage
                     ELSE RunExitMessage("code1"))
    /\ runSetFailed' = 1
C35_EarlyDeathFails ==
  /\ [][C35_EarlyDeathStep]_vars
  /\ [](runFailed \in C35_StartupMessages =>
          (runPc = "done" /\ ~runProbing /\ runProbe = RunNoProbe
             /\ ~runExports /\ ~runOutputs /\ runSetFailed = 1))
C35_Witness ==
  /\ runVariant = "spawn" /\ runPc = "done"
  /\ psEmitted = "error"
  /\ runFailed = RunErrorMessage

\* C36: in a run of the deploy action, the access token carried by the
\* Authorization header of the deployment request has been passed to
\* core.setSecret before, whether it came from the exchange or from the cache.
C36_TokenMaskedBeforeUse ==
  drRequests # <<>> => OaMasks(drToken) # {}

\* C37: the promise of a killProcessGracefully call never changes once it is
\* settled, whatever the order of the exit event, the timer and a failed SIGTERM;
\* a call whose SIGTERM was not delivered is rejected at once; and a call whose
\* SIGTERM was delivered is pending only while its timer, armed with timeoutMs,
\* is pending: it is settled when the timer fires, exit or no exit.
C37_SettledStays ==
  \A i \in 1..Len(kpCalls) :
    kpCalls[i].result # "pending" =>
      /\ kpCalls'[i].result = kpCalls[i].result
      /\ kpCalls'[i].error = kpCalls[i].error
C37_SettledInTime ==
  \A i \in 1..Len(kpCalls) :
    LET c == kpCalls[i]
        sigterm == KpKillsOf(i, "SIGTERM")
    IN /\ (\E k \in sigterm : ~psKills[k].delivered) =>
            (c.result = "error" /\ c.timer = "none")
       /\ (\E k \in sigterm : psKills[k].delivered) =>
            /\ c.delay = c.timeoutMs
            /\ c.result = "pending" => c.timer = "pending"
            /\ c.timer \in {"fired", "cleared"} => c.result = "ok"
C37_SettlesOnceInTime ==
  [][C37_SettledStays]_vars /\ []C37_SettledInTime
\* The timer of a call without the forceful option fired while the process was
\* still running, and a later exit found the promise settled.
C37_Witness ==
  /\ runVariant = "none"
  /\ Len(kpCalls) = 1
  /\ ~kpCalls[1].forceful
  /\ kpCalls[1].delay = 1000
  /\ kpCalls[1].timer = "fired"
  /\ kpCalls[1].result = "ok"
  /\ psKills = <<PsSignal("SIGTERM", TRUE, 1)>>
  /\ ~psAlive

\* C38: in waitForHealthCheck the expiry of the timer of attempt i, when the
\* request of attempt i is no longer the one in flight (the attempt failed for
\* another reason, a later attempt is running, or the call is over), changes
\* nothing but the set of pending timers; and a request is recorded as aborted
\* only in a step in which the timer of its own attempt expires.
C38_StaleTimerStep ==
  \A i \in hcTimers \ hcTimers' :
    (hcPc # "fetch" \/ hcAttempt # i) =>
      UNCHANGED <<hcPc, hcAttempt, hcReq, hcProbes, hcWaits, hcLog, hcResult,
                  hcError, hcSettled>>
C38_AbortedByOwnTimer ==
  (Len(hcLog') = Len(hcLog) + 1 /\ hcLog'[Len(hcLog')].kind = "aborted") =>
    /\ hcTimers \ hcTimers' = {hcAttempt}
    /\ hcLog'[Len(hcLog')].attempt = hcAttempt
C38_TimerAbortsOwnAttemptOnly ==
  [][C38_StaleTimerStep /\ C38_AbortedByOwnTimer]_vars
\* The timer left by attempt 0, which failed with a network error, has expired,
\* and attempt 1 was answered and passed.
C38_Witness ==
  /\ hcRequestTimeoutMs = 100
  /\ hcLog = <<HcRejected(0), HcResponse(1, 200)>>
  /\ hcTimers = {}
  /\ hcResult = "ok"

\* C39: the outputs server-url, pid and status of the server-start action are set
\* only in the step in which the readiness check succeeds, or at the end of the
\* startup wait of a run told to skip the check; a run whose outputs are set is
\* over, has reported no failure and never reports one.
C39_OutputsStep ==
  (runOutputs' /\ ~runOutputs) =>
    \/ runPc = "health" /\ runProbing /\ runHealthError = ""
    \/ runPc = "startup" /\ runSkipHealth /\ ~runProbing
C39_OutputsOnlyWhenReady ==
  /\ [][C39_OutputsStep]_vars
  /\ [](runOutputs => /\ runPc = "done"
                      /\ runSkipHealth \/ runProbing
                      /\ runHealthError = ""
                      /\ runFailed = "" /\ runSetFailed = 0)
C39_Witness ==
  /\ runVariant = "spawn"
  /\ ~runSkipHealth
  /\ runOutputs /\ runProbing /\ runExports
  /\ runPc = "done"
  /\ psAlive

\* C40: waitForDeploymentCompletion has returned only if its last status check
\* reported 'completed'; a status check that ends with a status other than
\* 'completed' and 'failed' (an unknown one included), with a non-success
\* response or with a rejection is followed by one poll interval and leaves the
\* call pending; and after the interval the call issues the next status check
\* while the time budget lasts and throws the timeout error once it is used up.
C40_Retried(e) ==
  \/ e.kind = "status" /\ e.state \notin {"completed", "failed"}
  \/ e.kind = "http"
  \/ e.kind = "rejected"
C40_RetryStep ==
  (Len(dpLog') = Len(dpLog) + 1 /\ C40_Retried(dpLog'[Len(dpLog')])) =>
    /\ dpPc' = "wait"
    /\ dpWaits' = Append(dpWaits, DpPollInterval)
    /\ dpResult' = "pending" /\ dpSettled' = 0
C40_AfterWaitStep ==
  (dpPc = "wait" /\ dpPc' # "wait") =>
    /\ dpNow' = dpNow + DpPollInterval
    /\ IF dpNow' < DpTimeoutMs
       THEN dpPc' = "fetch" /\ dpChecks' = dpChecks + 1 /\ dpResult' = "pending"
       ELSE dpResult' = "error" /\ dpError' = DpTimeoutMessage /\ dpChecks' = dpChecks
====
